---- MODULE Spec2Model ----
(***************************************************************************)
(* swarm-viz server: the state-synchronisation pipeline of                 *)
(* server/index.ts (latest revision) and server/mappers.ts.                *)
(*                                                                         *)
(* The process is a single-threaded event loop, so every callback          *)
(* (websocket open/close, the poll-loop interval) is one atomic action.    *)
(* The observed stores are written by an external process; its writes are  *)
(* the Writer* actions.                                                    *)
(*                                                                         *)
(* Timestamps are stored as text.  The model keeps the fixed-width,        *)
(* zero-padded shape of an ISO-8601 string as a pair of decimal digits     *)
(* <<tens, units>>, compared lexicographically as SQLite compares TEXT,    *)
(* parsed by DateGetTime and printed by ToISOString.                       *)
(***************************************************************************)
EXTENDS Integers, Sequences, FiniteSets, TLC

\* ---- bounds of the model -------------------------------------------------
MaxMail == 2
MaxEvents == 3
MaxMetrics == 1
MaxTicks == 2
MaxFaults == 1
MaxTs == 2
MaxEscalation == 1
MaxSendIdx == 1
MaxAgents == 2
MaxSimCycles == 1
MaxTimerDelay == 20
MaxRecords == 3
MaxModeTicks == 4
MaxSockets == 8
MaxWindowMail == 52
MaxWindowTicks == 720

\* runs of the callback while the merge queue is watched in demo mode
MaxDepartTicks == 200

\* ---- program constants ---------------------------------------------------
POLL_INTERVAL_MS == 500
CYCLE_DURATION_MS == 115000
MAX_RECENT_MESSAGES == 50
COST_WINDOW_MS == 30000
NEW_EVENTS_LIMIT == 50
\* one metrics record's estimated cost, in micro-dollars (toFixed(6) units)
CostUnit == 100000

Conns == {"c1", "c2"}
Agents == {"a1", "a2"}
Branches == {<<"b1">>}
NULL == "null"
\* null in a numeric column
NullNumber == 0 - 1

\* ---- small helpers -------------------------------------------------------
Last(s) == s[Len(s)]

Range(s) == {s[i] : i \in 1..Len(s)}

Take(s, n) == SubSeq(s, 1, IF Len(s) < n THEN Len(s) ELSE n)

Reverse(s) == [i \in 1..Len(s) |-> s[Len(s) + 1 - i]]

\* the place of pair i of s in ascending key order, pairs with equal keys in
\* scan order
RankByKey(s, i) ==
    1 + Cardinality({j \in 1..Len(s) : s[j][1] < s[i][1] \/ (s[j][1] = s[i][1] /\ j < i)})

\* ORDER BY key ASC over <<key, row>> pairs; rows with equal keys keep scan order
SortByKey(s) == [k \in 1..Len(s) |-> s[CHOOSE i \in 1..Len(s) : RankByKey(s, i) = k]]

Rows(pairs) == [i \in 1..Len(pairs) |-> pairs[i][2]]

\* ---- timestamps as text --------------------------------------------------
\* new Date(ms).toISOString(): fixed-width text of an epoch-millisecond value
ToISOString(ms) == <<ms \div 10, ms % 10>>

\* new Date(text).getTime()
DateGetTime(text) == text[1] * 10 + text[2]

\* SQLite TEXT comparison a > b (bytewise, left to right)
TextGT(a, b) == \/ a[1] > b[1]
                \/ a[1] = b[1] /\ a[2] > b[2]

TextLT(a, b) == TextGT(b, a)

\* ---- state -----------------------------------------------------------------
VARIABLES
    sessionsTable,          \* sessions.db: rows of table sessions, in rowid order
    mailTable,              \* mail.db: rows of table messages, in rowid order
    mergeTable,             \* merge-queue.db: rows of table merge_queue
    eventsTable,            \* events.db: rows of table events; id = position
    metricsTable,           \* metrics.db: rows of table sessions
    lastId,                 \* the closure variable of LiveDatabases.queryNewEvents
    clientStates,           \* Map<ws, ClientState> in insertion order
    costSamples,            \* rolling cost sample buffer
    smoothedCostPerMinute,  \* [num, den]: a fraction, in 10^-4 dollars per minute
    now,                    \* Date.now(), milliseconds since the process started
    modeManager,            \* ModeManager: mode, active project, providers, flags
    discovery,              \* DiscoveryManager: projects, lastKey, handlers, timer
    fs,                     \* the environment: project directories, stores, variables
    simulator,              \* the DemoSimulator the mode manager holds
    wsState,                \* per socket: connecting, open, closing, closed
    wire,                   \* per socket: the messages delivered to the client
    faults,                 \* number of injected query/send failures
    hist,                   \* per socket: history of the last poll (for the properties)
    probe,                  \* arguments and result of a function applied on its own
    liveDb,                 \* the open LiveDatabases bundle: handles and statements
    swarmSocket             \* the client's createWebSocket closure: sockets, timers, closed

vars == <<sessionsTable, mailTable, mergeTable, eventsTable, metricsTable,
          lastId, clientStates, costSamples, smoothedCostPerMinute, now, modeManager, discovery, fs, simulator,
          wsState, wire, faults, hist, liveDb, swarmSocket, probe>>

\* ---- the observed stores ----------------------------------------------------
\* columns of an agent that the writer never changes after the insert
ParentOf(a) == IF a = "a1" THEN NULL ELSE "a1"

DepthOf(a) == IF a = "a1" THEN 0 ELSE 1

CapabilityOf(a) == IF a = "a1" THEN "coordinator" ELSE "builder"

BeadOf(a) == IF a = "a1" THEN "" ELSE "task-1"

NewSessionRow(a) ==
    [agent_name |-> a, capability |-> CapabilityOf(a), state |-> "working",
     parent_agent |-> ParentOf(a), depth |-> DepthOf(a), bead_id |-> BeadOf(a),
     started_at |-> ToISOString(1), last_activity |-> ToISOString(1),
     escalation_level |-> 0]

HasSession(a) == \E i \in 1..Len(sessionsTable) : sessionsTable[i].agent_name = a

StreamedEventTypes == {"tool_start", "mail_sent"}

EventTypes == {"tool_start", "session_end"}

\* ---- server/mappers.ts ------------------------------------------------------
mapSession(row) ==
    [agentName |-> row.agent_name, capability |-> row.capability,
     state |-> row.state, parentAgent |-> row.parent_agent, depth |-> row.depth,
     beadId |-> row.bead_id, startedAt |-> row.started_at,
     lastActivity |-> row.last_activity, escalationLevel |-> row.escalation_level]

\* ---- text as the code takes it apart ----------------------------------------
\* a model identifier is the sequence of its characters; null where one is
\* expected is NullModel
NullModel == <<"null">>

UpperCase == <<"A", "B", "C", "D", "E", "F", "G", "H", "I", "J", "K", "L", "M", "N", "O", "P", "Q", "R", "S", "T", "U", "V", "W", "X", "Y", "Z">>

LowerCase == <<"a", "b", "c", "d", "e", "f", "g", "h", "i", "j", "k", "l", "m", "n", "o", "p", "q", "r", "s", "t", "u", "v", "w", "x", "y", "z">>

\* String.prototype.toLowerCase
toLowerCase(text) ==
    [i \in 1..Len(text) |->
        IF \E k \in 1..Len(UpperCase) : UpperCase[k] = text[i]
        THEN LowerCase[CHOOSE k \in 1..Len(UpperCase) : UpperCase[k] = text[i]]
        ELSE text[i]]

\* String.prototype.includes
includes(text, sub) ==
    \E i \in 1..(Len(text) - Len(sub) + 1) : SubSeq(text, i, i + Len(sub) - 1) = sub

\* String.prototype.slice(0, n)
slice0(text, n) == SubSeq(text, 1, IF Len(text) < n THEN Len(text) ELSE n)

\* the family names modelShorthand looks for, in its order
ModelFamilies == <<<<"o", "p", "u", "s">>, <<"s", "o", "n", "n", "e", "t">>, <<"h", "a", "i", "k", "u">>, <<"g", "p", "t", "-", "4">>, <<"g", "p", "t", "-", "3">>>>

\* modelShorthand once the identifier is in lower case
ShorthandOf(model, lower) ==
    LET hits == {k \in 1..Len(ModelFamilies) : includes(lower, ModelFamilies[k])}
    IN IF hits = {} THEN slice0(model, 8)
       ELSE ModelFamilies[CHOOSE k \in hits : \A j \in hits : k <= j]

\* modelShorthand(model)
modelShorthand(model) ==
    IF model = NullModel \/ model = <<>> THEN <<>>
    ELSE ShorthandOf(model, toLowerCase(model))

\* model identifiers as they occur in metrics.db
OpusModel == <<"c", "l", "a", "u", "d", "e", "-", "O", "p", "u", "s", "-", "4">>

SonnetModel == <<"c", "l", "a", "u", "d", "e", "-", "s", "o", "n", "n", "e", "t", "-", "4", "-", "5", "-", "2", "0", "2", "5", "0", "9", "2", "9">>

OtherModel == <<"g", "e", "m", "i", "n", "i", "-", "1", ".", "5", "-", "p", "r", "o">>

mapMessage(row) == [id |-> row.id, createdAt |-> row.created_at]

\* ---- JSON.parse ----------------------------------------------------------------
\* a JavaScript value: type is null, number, string, array or object; text holds
\* the digits or the characters, items the elements of an array
JsValue(type, text, items) == [type |-> type, text |-> text, items |-> items]

JsArray(items) == JsValue("array", <<>>, items)

Digits == {"0", "1", "2", "3", "4", "5", "6", "7", "8", "9"}

\* the character at position i, "" past the end
At(t, i) == IF i \in 1..Len(t) THEN t[i] ELSE ""

\* text t reads word from position i on
StartsAt(t, i, word) == \A k \in 1..Len(word) : At(t, i + k - 1) = word[k]

\* the first position from i on where t has no digit
DigitsEnd(t, i) == CHOOSE j \in i..(Len(t) + 1) : At(t, j) \notin Digits /\ \A k \in i..(j - 1) : t[k] \in Digits

\* the positions after i that hold a double quote
QuotesAfter(t, i) == {j \in (i + 1)..Len(t) : t[j] = "\""}

\* the outcome of reading no value at position i
NoParse == [ok |-> FALSE, val |-> JsValue("null", <<>>, <<>>), next |-> 0]

RECURSIVE ParseValue(_, _)
RECURSIVE ParseItems(_, _, _)
\* one JSON value of text t from position i on: null, a number of digits, a
\* string without escapes, an array, the empty object (no white space); next
\* is the position after it
ParseValue(t, i) ==
    CASE StartsAt(t, i, <<"n", "u", "l", "l">>) ->
            [ok |-> TRUE, val |-> JsValue("null", <<>>, <<>>), next |-> i + 4]
      [] At(t, i) \in Digits ->
            [ok |-> TRUE, val |-> JsValue("number", SubSeq(t, i, DigitsEnd(t, i) - 1), <<>>),
             next |-> DigitsEnd(t, i)]
      [] At(t, i) = "\"" /\ QuotesAfter(t, i) # {} ->
            LET j == CHOOSE q \in QuotesAfter(t, i) : \A r \in QuotesAfter(t, i) : q <= r
            IN [ok |-> TRUE, val |-> JsValue("string", SubSeq(t, i + 1, j - 1), <<>>),
                next |-> j + 1]
      [] At(t, i) = "[" /\ At(t, i + 1) = "]" ->
            [ok |-> TRUE, val |-> JsArray(<<>>), next |-> i + 2]
      [] At(t, i) = "[" /\ At(t, i + 1) # "]" -> ParseItems(t, i + 1, <<>>)
      [] At(t, i) = "{" /\ At(t, i + 1) = "}" ->
            [ok |-> TRUE, val |-> JsValue("object", <<>>, <<>>), next |-> i + 2]
      [] OTHER -> NoParse

\* the elements of an array from position i on, acc being those read so far
ParseItems(t, i, acc) ==
    LET r == ParseValue(t, i)
    IN IF ~r.ok THEN NoParse
       ELSE IF At(t, r.next) = "," THEN ParseItems(t, r.next + 1, Append(acc, r.val))
       ELSE IF At(t, r.next) = "]"
       THEN [ok |-> TRUE, val |-> JsArray(Append(acc, r.val)), next |-> r.next + 1]
       ELSE NoParse

\* JSON.parse(text): ok is FALSE where it raises SyntaxError
JSONparse(text) ==
    IF ParseValue(text, 1).ok /\ ParseValue(text, 1).next = Len(text) + 1
    THEN [ok |-> TRUE, val |-> ParseValue(text, 1).val]
    ELSE [ok |-> FALSE, val |-> JsValue("null", <<>>, <<>>)]

\* JSON.stringify([]) as overstory writes files_modified for no file
NoFilesText == <<"[", "]">>

\* try { filesModified = JSON.parse(row.files_modified) } catch { filesModified = [] }
mapMergeEntry(row) ==
    [branchName |-> row.branch_name, agentName |-> row.agent_name,
     status |-> row.status,
     filesModified |-> IF JSONparse(row.files_modified).ok
                       THEN JSONparse(row.files_modified).val
                       ELSE JsArray(<<>>)]

mapMetricsSession(row) ==
    [agentName |-> row.agent_name, estimatedCostUsd |-> row.estimated_cost_usd,
     modelUsed |-> row.model_used]

KNOWN_CAPABILITIES == {"coordinator", "lead", "scout", "builder", "reviewer", "merger"}

toAgent(s) ==
    [name |-> s.agentName,
     capability |-> IF s.capability \in KNOWN_CAPABILITIES THEN s.capability ELSE "builder",
     state |-> s.state, parentAgent |-> s.parentAgent, depth |-> s.depth,
     beadId |-> IF s.beadId = "" THEN NULL ELSE s.beadId,
     lastActivity |-> DateGetTime(s.lastActivity)]

toAgentMessage(m) == [id |-> m.id, createdAt |-> DateGetTime(m.createdAt)]

toVizMergeEntry(e) ==
    [branchName |-> e.branchName, agentName |-> e.agentName, status |-> e.status,
     filesModified |-> e.filesModified]

MapSeq1(s, F(_)) == [i \in 1..Len(s) |-> F(s[i])]

RECURSIVE SumCosts(_)
\* reduce over the ledger: sum + e.costUsd
SumCosts(s) == IF s = <<>> THEN 0 ELSE Head(s).costUsd + SumCosts(Tail(s))

\* the ledger after one more record s of an agent it has no entry for (first)
\* or has the entry ledger[i] for, add being what s adds to the cost
LedgerWith(ledger, s, add) ==
    IF \A i \in 1..Len(ledger) : ledger[i].agentName # s.agentName
    THEN Append(ledger, [agentName |-> s.agentName, costUsd |-> add,
                         modelUsed |-> modelShorthand(s.modelUsed)])
    ELSE [i \in 1..Len(ledger) |->
            IF ledger[i].agentName = s.agentName
            THEN [ledger[i] EXCEPT !.costUsd = @ + add,
                                   !.modelUsed = modelShorthand(s.modelUsed)]
            ELSE ledger[i]]

RECURSIVE CostLedgerAddsNull(_, _)
\* the loop without the ?? 0 on estimatedCostUsd
CostLedgerAddsNull(ms, ledger) ==
    IF ms = <<>> THEN ledger
    ELSE CostLedgerAddsNull(Tail(ms), LedgerWith(ledger, Head(ms), Head(ms).estimatedCostUsd))

RECURSIVE CostLedger(_, _)
\* the agentCostMap loop: one entry per agent, in the order the agents first
\* occur; costs summed, null counted as 0; the model shorthand of the record
\* at hand (the assignment under if (s.modelUsed) repeats the initialiser)
CostLedger(ms, ledger) ==
    IF ms = <<>> THEN ledger
    ELSE CostLedger(Tail(ms),
                    LedgerWith(ledger, Head(ms),
                               IF Head(ms).estimatedCostUsd = NullNumber THEN 0
                               ELSE Head(ms).estimatedCostUsd))

computeMetrics(sessions, totalMessages, metricsSessions, costPerMinute) ==
    LET active == {i \in 1..Len(sessions) : sessions[i].state \in {"working", "booting"}}
        ledger == CostLedger(metricsSessions, <<>>)
        sorted == Rows(SortByKey([i \in 1..Len(ledger) |-> <<0 - ledger[i].costUsd, ledger[i]>>]))
    IN [totalAgents |-> Len(sessions), activeAgents |-> Cardinality(active),
        totalMessages |-> totalMessages, totalCost |-> SumCosts(sorted),
        costPerMinute |-> costPerMinute, agentCosts |-> sorted]

\* ---- LiveDatabases: the query closures of openLiveDatabases -----------------
\* SELECT * FROM sessions ORDER BY depth ASC, started_at ASC
querySessions ==
    MapSeq1(Rows(SortByKey([i \in 1..Len(sessionsTable) |->
                <<sessionsTable[i].depth * 1000 + DateGetTime(sessionsTable[i].started_at),
                  sessionsTable[i]>>])), mapSession)

\* the rows as the statement returns them, newest first
queryRecentMessagesNewestFirst ==
    MapSeq1(Take(Rows(SortByKey([i \in 1..Len(mailTable) |->
                <<0 - DateGetTime(mailTable[i].created_at), mailTable[i]>>])),
                MAX_RECENT_MESSAGES), mapMessage)

\* ... ORDER BY created_at DESC LIMIT ?, mapped, then reversed
queryRecentMessages ==
    Reverse(MapSeq1(Take(Rows(SortByKey([i \in 1..Len(mailTable) |->
                <<0 - DateGetTime(mailTable[i].created_at), mailTable[i]>>])),
                MAX_RECENT_MESSAGES), mapMessage))

\* ... WHERE created_at > ? ORDER BY created_at ASC
queryNewMessages(since) ==
    LET newer == SelectSeq(mailTable, LAMBDA r : TextGT(r.created_at, since))
    IN MapSeq1(Rows(SortByKey([i \in 1..Len(newer) |->
                <<DateGetTime(newer[i].created_at), newer[i]>>])), mapMessage)

queryMessageCount == Len(mailTable)

\* the merge queue read without the status filter
queryMergeQueueAnyStatus ==
    MapSeq1(Rows(SortByKey([i \in 1..Len(mergeTable) |->
                <<0 - DateGetTime(mergeTable[i].enqueued_at), mergeTable[i]>>])), mapMergeEntry)

\* ... WHERE status IN ('pending', 'merging') ORDER BY enqueued_at DESC
queryMergeQueue ==
    LET live == SelectSeq(mergeTable, LAMBDA r : r.status \in {"pending", "merging"})
    IN MapSeq1(Rows(SortByKey([i \in 1..Len(live) |->
                <<0 - DateGetTime(live[i].enqueued_at), live[i]>>])), mapMergeEntry)

\* ... FROM sessions ORDER BY started_at DESC
queryMetricsSessions ==
    MapSeq1(Rows(SortByKey([i \in 1..Len(metricsTable) |->
                <<0 - DateGetTime(metricsTable[i].started_at), metricsTable[i]>>])),
            mapMetricsSession)

\* SELECT MAX(id) FROM events, with ?? 0
MaxEventId == Len(eventsTable)

\* stmtNewEvents.all(cursor): id > ? AND event_type IN (...) ORDER BY id ASC LIMIT 50
stmtNewEvents(cursor) ==
    Take(SelectSeq(eventsTable,
                   LAMBDA r : r.id > cursor /\ r.event_type \in StreamedEventTypes),
         NEW_EVENTS_LIMIT)

\* the closure returned for queryNewEvents: the argument sinceId is not read, the
\* query runs from the closure's own lastId, which it advances.  Result:
\* [rows |-> ToolEventData[], lastId |-> the closure variable afterwards]
queryNewEvents(sinceId, closureLastId) ==
    LET rows == stmtNewEvents(closureLastId)
    IN [rows |-> [i \in 1..Len(rows) |->
                    [agentName |-> rows[i].agent_name, toolName |-> rows[i].tool_name,
                     eventType |-> rows[i].event_type, createdAt |-> rows[i].created_at]],
        lastId |-> IF Len(rows) > 0 THEN Last(rows).id ELSE closureLastId]

\* ---- cost-per-minute tracking -----------------------------------------------
RECURSIVE DropOld(_, _)
\* while (costSamples.length > 1 && now - costSamples[0].ts > COST_WINDOW_MS) shift()
DropOld(samples, t) ==
    IF Len(samples) > 1 /\ t - samples[1].ts > COST_WINDOW_MS
    THEN DropOld(Tail(samples), t)
    ELSE samples

\* recordCostSample(totalCost) at time t: the buffer and the smoothed rate afterwards
recordCostSample(totalCost, samples, smoothed, t) ==
    LET kept == DropOld(Append(samples, [cost |-> totalCost, ts |-> t]), t)
        oldest == kept[1]
        newest == Last(kept)
        deltaMs == newest.ts - oldest.ts
        deltaCost == newest.cost - oldest.cost
    IN [samples |-> kept,
        smoothed |-> IF Len(kept) >= 2 /\ deltaMs > 0 /\ deltaCost >= 0
                     THEN [num |-> deltaCost * 600, den |-> deltaMs]
                     ELSE smoothed]

\* (rate).toFixed(4): the fraction, in 10^-4 dollars per minute, rounded to nearest
ToFixed4(rate) == (2 * rate.num + rate.den) \div (2 * rate.den)

\* ---- per-client delta tracking ----------------------------------------------
metricsKey(m) ==
    <<m.totalAgents, m.activeAgents, m.totalMessages, m.totalCost, ToFixed4(m.costPerMinute)>>

\* a fingerprint that leaves lastActivity out
agentKeyWithoutActivity(a) == <<a.state, IF a.parentAgent = NULL THEN "" ELSE a.parentAgent>>

agentKey(a) == <<a.state, a.lastActivity, IF a.parentAgent = NULL THEN "" ELSE a.parentAgent>>

\* findIndex(e => e[k] === v) when some entry matches
FirstWith(list, k, v) ==
    CHOOSE i \in 1..Len(list) : list[i][k] = v /\ \A j \in 1..(i - 1) : list[j][k] # v

\* a Map<string, string> filled by set() in list order: later entries win
MapOf(keys, vals) ==
    [k \in Range(keys) |-> vals[CHOOSE i \in 1..Len(keys) :
                                  keys[i] = k /\ \A j \in (i+1)..Len(keys) : keys[j] # k]]

\* ModeManager.buildDashboardState
buildDashboardState(mm) ==
    [mode |-> mm.mode, activeProject |-> mm.activeProject,
     projects |-> [i \in 1..Len(mm.projects) |->
                     [mm.projects[i] EXCEPT !.active = mm.projects[i].name = mm.activeProject]]]

dashboardKey(ds) ==
    <<ds.mode, IF ds.activeProject = NULL THEN "" ELSE ds.activeProject,
      [i \in 1..Len(ds.projects) |-> <<ds.projects[i].name, ds.projects[i].activeAgents>>]>>

\* the return statement of buildSnapshot, after recordCostSample(metrics.totalCost)
SnapshotOf(sessions, messages, mergeQueue, metrics, rec) ==
    [snapshot |-> [agents |-> MapSeq1(sessions, toAgent),
                   messages |-> MapSeq1(messages, toAgentMessage),
                   mergeQueue |-> MapSeq1(mergeQueue, toVizMergeEntry),
                   metrics |-> metrics],
     samples |-> rec.samples, smoothed |-> rec.smoothed]

\* buildSnapshot once its five queries have returned
buildSnapshotFrom(sessions, messages, mergeQueue, metricsSessions, totalMessages, metrics, samples, smoothed, t) ==
    SnapshotOf(sessions, messages, mergeQueue, metrics,
               recordCostSample(metrics.totalCost, samples, smoothed, t))

\* buildSnapshot at time t: the snapshot, and the cost buffer it leaves behind
buildSnapshot(samples, smoothed, t) ==
    buildSnapshotFrom(querySessions, queryRecentMessages, queryMergeQueue,
                      queryMetricsSessions, queryMessageCount,
                      computeMetrics(querySessions, queryMessageCount, queryMetricsSessions, smoothed),
                      samples, smoothed, t)

initClientState(snapshot, mm) ==
    [agentStateMap |-> MapOf([i \in 1..Len(snapshot.agents) |-> snapshot.agents[i].name],
                             [i \in 1..Len(snapshot.agents) |-> agentKey(snapshot.agents[i])]),
     lastMessageTimestamp |->
        IF Len(snapshot.messages) > 0
        THEN ToISOString(Last(snapshot.messages).createdAt)
        ELSE ToISOString(0),
     mergeStatusMap |-> MapOf([i \in 1..Len(snapshot.mergeQueue) |-> snapshot.mergeQueue[i].branchName],
                              [i \in 1..Len(snapshot.mergeQueue) |-> snapshot.mergeQueue[i].status]),
     metricsKey |-> metricsKey(snapshot.metrics),
     lastTotalMessages |-> snapshot.metrics.totalMessages,
     lastDashboardKey |-> dashboardKey(buildDashboardState(mm)),
     lastEventId |-> 0]

\* the updates.push calls of computeUpdates, in program order
AgentUpdates(state, vizAgents) ==
    LET changed == SelectSeq(vizAgents, LAMBDA a :
                       \/ a.name \notin DOMAIN state.agentStateMap
                       \/ state.agentStateMap[a.name] # agentKey(a))
    IN [i \in 1..Len(changed) |-> [type |-> "agent_update", data |-> changed[i]]]

MessageUpdates(newMail) ==
    [i \in 1..Len(newMail) |-> [type |-> "message_event", data |-> newMail[i]]]

\* every entry of the queue, compared with nothing
MergeUpdatesAll(state, currentMerge) ==
    [i \in 1..Len(currentMerge) |-> [type |-> "merge_update", data |-> currentMerge[i]]]

MergeUpdates(state, currentMerge) ==
    LET changed == SelectSeq(currentMerge, LAMBDA e :
                       \/ e.branchName \notin DOMAIN state.mergeStatusMap
                       \/ state.mergeStatusMap[e.branchName] # e.status)
    IN [i \in 1..Len(changed) |-> [type |-> "merge_update", data |-> changed[i]]]

ToolUpdates(newEvents) ==
    [i \in 1..Len(newEvents) |-> [type |-> "tool_event", data |-> newEvents[i]]]

MetricsUpdates(state, currentMetrics) ==
    IF metricsKey(currentMetrics) # state.metricsKey
    THEN <<[type |-> "metrics_update", data |-> currentMetrics]>>
    ELSE <<>>

\* the metrics update pushed ahead of the other groups
AssembleUpdatesMetricsFirst(agentU, messageU, mergeU, toolU, metricsU) ==
    metricsU \o agentU \o messageU \o mergeU \o toolU

\* the order in which computeUpdates pushes the five groups
AssembleUpdates(agentU, messageU, mergeU, toolU, metricsU) ==
    agentU \o messageU \o mergeU \o toolU \o metricsU

\* points of computeUpdates at which a store query can raise (SQLITE_BUSY and the
\* like): the four statements that run outside any try/catch
QueryFaults == <<"querySessions", "queryNewMessages", "queryMergeQueue", "queryMessageCount">>

\* the end of computeUpdates: what it returns and what it has assigned, given the
\* record after the message cursor moved (state1) and the metrics update, if any
UpdatesResult(state, state1, vizAgents, newMail, currentMerge, ev, totalMessages, currentMetrics, metricsU, rec, closureLastId, samples, smoothed, qfault) ==
    CASE qfault \in {"querySessions", "queryNewMessages"} ->
            [state |-> state, updates |-> <<>>, lastId |-> closureLastId,
             samples |-> samples, smoothed |-> smoothed, threw |-> TRUE]
      [] qfault = "queryMergeQueue" ->
            [state |-> state1, updates |-> <<>>, lastId |-> closureLastId,
             samples |-> samples, smoothed |-> smoothed, threw |-> TRUE]
      [] qfault = "queryMessageCount" ->
            [state |-> state1, updates |-> <<>>, lastId |-> ev.lastId,
             samples |-> samples, smoothed |-> smoothed, threw |-> TRUE]
      [] OTHER ->
            [state |-> [state1 EXCEPT
                          !.metricsKey = IF metricsU # <<>> THEN metricsKey(currentMetrics) ELSE @,
                          !.lastTotalMessages = IF metricsU # <<>> THEN totalMessages ELSE @,
                          !.agentStateMap =
                              MapOf([i \in 1..Len(vizAgents) |-> vizAgents[i].name],
                                    [i \in 1..Len(vizAgents) |-> agentKey(vizAgents[i])]),
                          !.mergeStatusMap =
                              MapOf([i \in 1..Len(currentMerge) |-> currentMerge[i].branchName],
                                    [i \in 1..Len(currentMerge) |-> currentMerge[i].status])],
             updates |-> AssembleUpdates(AgentUpdates(state, vizAgents), MessageUpdates(newMail),
                                         MergeUpdates(state, currentMerge), ToolUpdates(ev.rows),
                                         metricsU),
             lastId |-> ev.lastId, samples |-> rec.samples, smoothed |-> rec.smoothed,
             threw |-> FALSE]

\* computeUpdates once its queries have returned
computeUpdatesFrom(state, sessions, newMail, currentMerge, ev, totalMessages, currentMetrics, closureLastId, samples, smoothed, t, qfault) ==
    UpdatesResult(state,
                  IF Len(newMail) > 0
                  THEN [state EXCEPT !.lastMessageTimestamp = ToISOString(Last(newMail).createdAt)]
                  ELSE state,
                  MapSeq1(sessions, toAgent), newMail, currentMerge, ev, totalMessages,
                  currentMetrics, MetricsUpdates(state, currentMetrics),
                  recordCostSample(currentMetrics.totalCost, samples, smoothed, t),
                  closureLastId, samples, smoothed, qfault)

\* computeUpdates(state) at time t.  qfault names the query that raises, or "none".
\* Result: the ClientState afterwards, the returned updates, the globals afterwards
\* and whether the call raised.
computeUpdates(state, closureLastId, samples, smoothed, t, qfault) ==
    computeUpdatesFrom(state, querySessions,
                       IF state.lastMessageTimestamp # <<>>
                       THEN MapSeq1(queryNewMessages(state.lastMessageTimestamp), toAgentMessage)
                       ELSE <<>>,
                       MapSeq1(queryMergeQueue, toVizMergeEntry),
                       queryNewEvents(state.lastEventId, closureLastId),
                       queryMessageCount,
                       computeMetrics(querySessions, queryMessageCount, queryMetricsSessions, smoothed),
                       closureLastId, samples, smoothed, t, qfault)

\* ---- history kept for the properties ----------------------------------------
\* the content of the five stores
Src == [sessions |-> sessionsTable, mail |-> mailTable, merge |-> mergeTable,
        events |-> eventsTable, metrics |-> metricsTable]

NoSrc == [sessions |-> <<>>, mail |-> <<>>, merge |-> <<>>, events |-> <<>>, metrics |-> <<>>]

NoHist == [openSrc |-> NoSrc, prevSrc |-> NoSrc, curSrc |-> NoSrc, batch |-> <<>>,
           sent |-> 0, threw |-> FALSE, polls |-> 0, clean |-> TRUE,
           evCursor |-> 0, evRows |-> <<>>, evQueried |-> FALSE, before |-> <<>>,
           at |-> 0]

NoProbe == [fn |-> "none", args |-> <<>>, result |-> <<>>]

\* const msg: ServerMessage = { type: "update", data: update }
UpdateMessage(update) == [type |-> "update", data |-> update]

\* JSON.stringify(msg) as the client parses it
OnWire(msg) == [type |-> msg.type, data |-> msg.data]

ClientIndex(c) == CHOOSE i \in 1..Len(clientStates) : clientStates[i].ws = c

HasClient(c) == \E i \in 1..Len(clientStates) : clientStates[i].ws = c

ClientState(c) == clientStates[ClientIndex(c)].state

\* ---- the external writer ----------------------------------------------------
SessionIndex(a) == CHOOSE i \in 1..Len(sessionsTable) : sessionsTable[i].agent_name = a

UnchangedServer ==
    UNCHANGED <<lastId, clientStates, costSamples, smoothedCostPerMinute, now,
                modeManager, discovery, fs, simulator, wsState, wire, faults, hist, liveDb, swarmSocket, probe>>

WriterSpawn(a) ==
    /\ ~HasSession(a)
    /\ sessionsTable' = Append(sessionsTable, NewSessionRow(a))
    /\ UNCHANGED <<mailTable, mergeTable, eventsTable, metricsTable>>
    /\ UnchangedServer

WriterSetState(a) ==
    /\ HasSession(a)
    /\ sessionsTable[SessionIndex(a)].state = "working"
    /\ sessionsTable' = [sessionsTable EXCEPT ![SessionIndex(a)].state = "completed"]
    /\ UNCHANGED <<mailTable, mergeTable, eventsTable, metricsTable>>
    /\ UnchangedServer

WriterTouch(a) ==
    /\ HasSession(a)
    /\ DateGetTime(sessionsTable[SessionIndex(a)].last_activity) < MaxTs
    /\ sessionsTable' = [sessionsTable EXCEPT ![SessionIndex(a)].last_activity =
                            ToISOString(DateGetTime(@) + 1)]
    /\ UNCHANGED <<mailTable, mergeTable, eventsTable, metricsTable>>
    /\ UnchangedServer

WriterEscalate(a) ==
    /\ HasSession(a)
    /\ sessionsTable[SessionIndex(a)].escalation_level < MaxEscalation
    /\ sessionsTable' = [sessionsTable EXCEPT ![SessionIndex(a)].escalation_level = @ + 1]
    /\ UNCHANGED <<mailTable, mergeTable, eventsTable, metricsTable>>
    /\ UnchangedServer

WriterMail(ts) ==
    /\ Len(mailTable) < MaxMail
    /\ mailTable' = Append(mailTable, [id |-> Len(mailTable) + 1, created_at |-> ToISOString(ts)])
    /\ UNCHANGED <<sessionsTable, mergeTable, eventsTable, metricsTable>>
    /\ UnchangedServer

WriterEnqueue(b) ==
    /\ \A i \in 1..Len(mergeTable) : mergeTable[i].branch_name # b
    /\ mergeTable' = Append(mergeTable,
            [branch_name |-> b, agent_name |-> "a1", status |-> "pending",
             files_modified |-> NoFilesText, enqueued_at |-> ToISOString(Len(mergeTable) + 1)])
    /\ UNCHANGED <<sessionsTable, mailTable, eventsTable, metricsTable>>
    /\ UnchangedServer

NextMergeStatus(s) == IF s = "pending" THEN "merging" ELSE "merged"

WriterMergeStatus(b) ==
    /\ \E i \in 1..Len(mergeTable) :
          /\ mergeTable[i].branch_name = b
          /\ mergeTable[i].status \in {"pending", "merging"}
          /\ mergeTable' = [mergeTable EXCEPT ![i].status = NextMergeStatus(@)]
    /\ UNCHANGED <<sessionsTable, mailTable, eventsTable, metricsTable>>
    /\ UnchangedServer

WriterEvent(ty) ==
    /\ Len(eventsTable) < MaxEvents
    /\ eventsTable' = Append(eventsTable,
            [id |-> Len(eventsTable) + 1, agent_name |-> "a1", tool_name |-> "Bash",
             event_type |-> ty, created_at |-> ToISOString(Len(eventsTable) + 1)])
    /\ UNCHANGED <<sessionsTable, mailTable, mergeTable, metricsTable>>
    /\ UnchangedServer

WriterMetrics(a, cost) ==
    /\ Len(metricsTable) < MaxMetrics
    /\ metricsTable' = Append(metricsTable,
            [agent_name |-> a, estimated_cost_usd |-> cost, model_used |-> SonnetModel,
             started_at |-> ToISOString(Len(metricsTable) + 1)])
    /\ UNCHANGED <<sessionsTable, mailTable, mergeTable, eventsTable>>
    /\ UnchangedServer

UnchangedStores ==
    UNCHANGED <<sessionsTable, mailTable, mergeTable, eventsTable, metricsTable>>

\* ---- websocket handlers -----------------------------------------------------
OpenFaults == {"buildSnapshot", "sendSnapshot", "sendDashboard"}

\* the dashboard state sent ahead of the snapshot
OpenSendsDashboardFirst(snapMsg, dsMsg, f) ==
    CASE f = "sendSnapshot" -> <<>>
      [] f = "sendDashboard" -> <<OnWire(dsMsg)>>
      [] OTHER -> <<OnWire(dsMsg), OnWire(snapMsg)>>

\* the two ws.send calls of websocket.open, cut short by the one that raises
OpenSends(snapMsg, dsMsg, f) ==
    CASE f = "sendSnapshot" -> <<>>
      [] f = "sendDashboard" -> <<OnWire(snapMsg)>>
      [] OTHER -> <<OnWire(snapMsg), OnWire(dsMsg)>>

\* websocket.open after buildSnapshot returned b: initClientState,
\* clientStates.set, the two sends
Register(c, f, b) ==
    /\ clientStates' = Append(clientStates,
                              [ws |-> c, state |-> initClientState(b.snapshot, modeManager)])
    /\ costSamples' = b.samples
    /\ smoothedCostPerMinute' = b.smoothed
    /\ wire' = [wire EXCEPT ![c] =
                   OpenSends([type |-> "snapshot", data |-> b.snapshot],
                             [type |-> "dashboard_state", data |-> buildDashboardState(modeManager)],
                             f)]
    /\ wsState' = [wsState EXCEPT ![c] = IF f = "none" THEN "open" ELSE "closing"]
    /\ hist' = [hist EXCEPT ![c] = [NoHist EXCEPT !.openSrc = Src, !.curSrc = Src,
                                                 !.prevSrc = Src, !.clean = (f = "none")]]

\* websocket.open(ws).  f names the step that raises, or "none".
Open(c, f) ==
    /\ wsState[c] = "connecting"
    /\ f # "none" => faults < MaxFaults
    /\ faults' = IF f = "none" THEN faults ELSE faults + 1
    /\ IF f = "buildSnapshot"
       THEN /\ wsState' = [wsState EXCEPT ![c] = "closing"]
            /\ UNCHANGED <<clientStates, costSamples, smoothedCostPerMinute, wire, hist>>
       ELSE Register(c, f, buildSnapshot(costSamples, smoothedCostPerMinute, now))
    /\ UNCHANGED <<lastId, now, modeManager, discovery, fs, simulator, probe, liveDb, swarmSocket>>
    /\ UnchangedStores

\* a close handler that leaves the record in clientStates
CloseKeepsRecord(c) ==
    /\ wsState[c] \in {"open", "closing"}
    /\ wsState' = [wsState EXCEPT ![c] = "closed"]
    /\ UNCHANGED <<lastId, clientStates, costSamples, smoothedCostPerMinute, now, modeManager, discovery, fs, simulator,
                   wire, faults, hist, liveDb, swarmSocket, probe>>
    /\ UnchangedStores

\* websocket.close(ws): clientStates.delete(ws)
Close(c) ==
    /\ wsState[c] \in {"open", "closing"}
    /\ wsState' = [wsState EXCEPT ![c] = "closed"]
    /\ clientStates' = SelectSeq(clientStates, LAMBDA e : e.ws # c)
    /\ UNCHANGED <<lastId, costSamples, smoothedCostPerMinute, now, modeManager, discovery, fs, simulator, wire,
                   faults, hist, liveDb, swarmSocket, probe>>
    /\ UnchangedStores

\* ---- poll loop --------------------------------------------------------------
\* ws.send raises at the (at+1)-th send of the batch
SendFaults == [kind : {"send"}, at : 0..MaxSendIdx]

PollFaults == [kind : {"query"}, at : DOMAIN QueryFaults] \cup SendFaults

NoFault == [kind |-> "none", at |-> 0]

\* one iteration of the poll loop, for entry i, computeUpdates having returned r:
\* the sends, cut short by the one that raises (sentN reach the client)
PollClient(i, acc, r, sendRaises, sentN) ==
    [acc EXCEPT
       !.clients[i].state = r.state,
       !.lastId = r.lastId,
       !.samples = r.samples,
       !.smoothed = r.smoothed,
       !.wire[acc.clients[i].ws] = @ \o [k \in 1..sentN |-> OnWire(UpdateMessage(r.updates[k]))],
       !.hist[acc.clients[i].ws] =
            [@ EXCEPT !.prevSrc = acc.hist[acc.clients[i].ws].curSrc, !.curSrc = Src,
                      !.batch = r.updates, !.sent = sentN,
                      !.threw = r.threw \/ sendRaises,
                      !.polls = @ + 1,
                      !.clean = @ /\ ~(r.threw \/ sendRaises),
                      !.evCursor = acc.clients[i].state.lastEventId,
                      !.evRows = SelectSeq(r.updates, LAMBDA u : u.type = "tool_event"),
                      !.evQueried = ~r.threw,
                      !.before = <<acc.clients[i].state>>,
                      !.at = acc.t]]

\* the sends of one iteration: all of the batch, none when computeUpdates raised
\* or the socket is no longer open, the first fk.at when ws.send raises
SendBatch(i, acc, r, sendRaises, fk) ==
    PollClient(i, acc, r, sendRaises,
               IF r.threw \/ wsState[acc.clients[i].ws] # "open" THEN 0
               ELSE IF sendRaises THEN fk.at ELSE Len(r.updates))

\* the try block of one iteration, computeUpdates having returned r
TrySends(i, acc, r, fc, fk) ==
    SendBatch(i, acc, r,
              /\ fc = i /\ fk.kind = "send" /\ ~r.threw /\ fk.at < Len(r.updates)
              /\ wsState[acc.clients[i].ws] = "open",
              fk)

RECURSIVE PollClientsNoCatch(_, _, _, _)
\* the loop without its per-connection try/catch: the first iteration that raises
\* ends the callback
PollClientsNoCatch(i, acc, fc, fk) ==
    IF i > Len(acc.clients) THEN acc
    ELSE IF fc = i
         THEN TrySends(i, acc,
                       computeUpdates(acc.clients[i].state, acc.lastId, acc.samples,
                                      acc.smoothed, acc.t,
                                      IF fk.kind = "query" THEN QueryFaults[fk.at] ELSE "none"),
                       fc, fk)
         ELSE PollClientsNoCatch(i + 1,
                 TrySends(i, acc,
                          computeUpdates(acc.clients[i].state, acc.lastId, acc.samples,
                                         acc.smoothed, acc.t, "none"),
                          fc, fk),
                 fc, fk)

RECURSIVE PollClients(_, _, _, _)
\* for (const [ws, state] of clientStates) { try { computeUpdates; send each } catch {} }
\* from entry i on; acc carries the entries, the globals, the wire and the history;
\* the fault fk strikes at entry fc (0: nowhere)
PollClients(i, acc, fc, fk) ==
    IF i > Len(acc.clients) THEN acc
    ELSE PollClients(i + 1,
            TrySends(i, acc,
                     computeUpdates(acc.clients[i].state, acc.lastId, acc.samples,
                                    acc.smoothed, acc.t,
                                    IF fc = i /\ fk.kind = "query"
                                    THEN QueryFaults[fk.at] ELSE "none"),
                     fc, fk),
            fc, fk)

\* the state the poll loop leaves behind
AfterPoll(acc) ==
    /\ clientStates' = acc.clients
    /\ lastId' = acc.lastId
    /\ costSamples' = acc.samples
    /\ smoothedCostPerMinute' = acc.smoothed
    /\ wire' = acc.wire
    /\ hist' = acc.hist

\* the setInterval callback.  In live mode modeManager.tick() does nothing; with
\* no discovered project the probing loop has nothing to probe.
Tick(fc, fk) ==
    /\ now < MaxTicks * POLL_INTERVAL_MS
    /\ fc \in 0..Len(clientStates)
    /\ fc = 0 <=> fk = NoFault
    /\ fc # 0 => faults < MaxFaults
    /\ faults' = IF fc = 0 THEN faults ELSE faults + 1
    /\ now' = now + POLL_INTERVAL_MS
    /\ AfterPoll(PollClients(1, [clients |-> clientStates, lastId |-> lastId,
                                 samples |-> costSamples, smoothed |-> smoothedCostPerMinute,
                                 wire |-> wire, hist |-> hist, t |-> now'], fc, fk))
    /\ UNCHANGED <<modeManager, discovery, fs, simulator, wsState, probe, liveDb, swarmSocket>>
    /\ UnchangedStores

\* the callback runs again only after the process was suspended for longer than
\* the cost window (setInterval does not make up for missed runs)
TickStalled ==
    /\ now < MaxTicks * POLL_INTERVAL_MS
    /\ now' = now + COST_WINDOW_MS + POLL_INTERVAL_MS
    /\ AfterPoll(PollClients(1, [clients |-> clientStates, lastId |-> lastId,
                                 samples |-> costSamples, smoothed |-> smoothedCostPerMinute,
                                 wire |-> wire, hist |-> hist, t |-> now'], 0, NoFault))
    /\ UNCHANGED <<modeManager, discovery, fs, simulator, wsState, probe, liveDb, swarmSocket, faults>>
    /\ UnchangedStores

\* ---- discovery.ts ------------------------------------------------------------
\* PROJECT_ROOTS, in the order discoverProjects walks them (~/Dev/projects, ~/gt)
PROJECT_ROOTS == << <<"Dev/projects">>, <<"gt">> >>

\* directory names that may exist under a root, in string order
Entries == <<"p", "q">>

\* join(dir, entry)
join(dir, entry) == dir \o <<entry>>

\* basename(path)
basename(path) == path[Len(path)]

\* the project directories the environment may hold; "p" exists under both roots
ProjectPaths == {join(PROJECT_ROOTS[1], "p"), join(PROJECT_ROOTS[1], "q"),
                 join(PROJECT_ROOTS[2], "p")}

ProjectNames == {basename(path) : path \in ProjectPaths}

\* const overstoryDir = join(projectPath, ".overstory")
OverstoryDirOf(projectPath) == join(projectPath, ".overstory")

\* the value of OVERSTORY_DIR when it is set
OVERSTORY_DIR == <<"srv", ".overstory">>

\* OVERSTORY_DIR when the variable is not set
Unset == <<>>

StoreDirs == {OverstoryDirOf(path) : path \in ProjectPaths} \cup {OVERSTORY_DIR}

IndexIn(s, x) == CHOOSE i \in 1..Len(s) : s[i] = x

\* position of a path in the default (code unit) order of Array.prototype.sort
PathRank(path) ==
    (IndexIn(PROJECT_ROOTS, <<path[1]>>) - 1) * Len(Entries) + IndexIn(Entries, path[2])

\* every order in which readdirSync may list the directories of S
Listings(S) == {s \in [1..Cardinality(S) -> S] : Range(s) = S}

\* results.push({ name, path, overstoryDir, active: false, activeAgents: 0 })
NewProject(projectPath) ==
    [name |-> basename(projectPath), path |-> projectPath,
     overstoryDir |-> OverstoryDirOf(projectPath), active |-> FALSE, activeAgents |-> 0]

\* scanRoot(root): the entries of listing under root that hold .overstory/sessions.db
scanRoot(root, listing) ==
    MapSeq1(SelectSeq(listing, LAMBDA path : <<path[1]>> = root), NewProject)

RECURSIVE ScanRoots(_, _)
\* for (const root of PROJECT_ROOTS) all.push(...scanRoot(root))
ScanRoots(i, listing) ==
    IF i > Len(PROJECT_ROOTS) THEN <<>>
    ELSE scanRoot(PROJECT_ROOTS[i], listing) \o ScanRoots(i + 1, listing)

\* all.filter(p => first time p.path is seen)
DedupeByPath(all) ==
    LET keep == {i \in 1..Len(all) : \A j \in 1..(i - 1) : all[j].path # all[i].path}
        F[i \in 0..Len(all)] ==
            IF i = 0 THEN <<>>
            ELSE IF i \in keep THEN Append(F[i - 1], all[i]) ELSE F[i - 1]
    IN F[Len(all)]

\* discoverProjects() when the directories are listed in the order of listing
discoverProjects(listing) == DedupeByPath(ScanRoots(1, listing))

\* a key that keeps the listing order
projectsKeyUnsorted(projects) == [i \in 1..Len(projects) |-> projects[i].path]

\* projectsKey: the paths, sorted, joined by "|"
projectsKey(projects) ==
    Rows(SortByKey([i \in 1..Len(projects) |->
                       <<PathRank(projects[i].path), projects[i].path>>]))

\* new DiscoveryManager() before its constructor body runs
NewDiscovery == [projects |-> <<>>, lastKey |-> <<>>, handlers |-> 0, timer |-> FALSE]

\* scan with a project list that ignores the previous counts
CarryNothing(discovered, prev) == discovered

\* scan, lines 174-181: prev = new Map(projects by path); counts copied onto
\* the discovered entries whose path prev holds
CarryCounts(discovered, prev) ==
    [i \in 1..Len(discovered) |->
        LET at == {j \in 1..Len(prev) : prev[j].path = discovered[i].path}
        IN IF at = {} THEN discovered[i]
           ELSE [discovered[i] EXCEPT !.activeAgents =
                    prev[CHOOSE j \in at : \A k \in at : k <= j].activeAgents]]

\* DiscoveryManager.scan up to notifyHandlers: the manager afterwards and
\* whether notifyHandlers is called
scan(d, listing) ==
    LET discovered == discoverProjects(listing)
        key == projectsKey(discovered)
    IN IF key = d.lastKey
       THEN [d |-> d, notify |-> FALSE]
       ELSE [d |-> [d EXCEPT !.projects = CarryCounts(discovered, d.projects),
                             !.lastKey = key],
             notify |-> TRUE]

\* this.projects.find(p => p.name === projectName): its index, 0 for undefined
FindByName(projects, projectName) ==
    LET at == {i \in 1..Len(projects) : projects[i].name = projectName}
    IN IF at = {} THEN 0 ELSE CHOOSE i \in at : \A j \in at : i <= j

\* an update that notifies without comparing the count
updateAlwaysNotifies(d, projectName, count) ==
    LET i == FindByName(d.projects, projectName)
    IN IF i # 0
       THEN [d |-> [d EXCEPT !.projects[i].activeAgents = count], notify |-> TRUE]
       ELSE [d |-> d, notify |-> FALSE]

\* DiscoveryManager.updateActiveAgents up to notifyHandlers
updateActiveAgents(d, projectName, count) ==
    LET i == FindByName(d.projects, projectName)
    IN IF i # 0 /\ d.projects[i].activeAgents # count
       THEN [d |-> [d EXCEPT !.projects[i].activeAgents = count], notify |-> TRUE]
       ELSE [d |-> d, notify |-> FALSE]

\* ---- simulator.ts: DemoSimulator --------------------------------------------
BEAD_PREFIXES ==
    <<"auth-refactor", "api-gateway", "db-migration", "ui-overhaul",
      "perf-tuning", "test-infra", "cache-layer", "deploy-pipeline">>

\* DemoSimulator.getBead(offset) when this.cycleCount = cycleCount
getBead(cycleCount, offset) ==
    BEAD_PREFIXES[((cycleCount + offset) % Len(BEAD_PREFIXES)) + 1]

\* the array literal of DemoSimulator.buildTimeline; template strings are kept
\* as the sequence of their parts
buildTimeline(srvBead, cliBead) ==
    <<
       [offsetMs |-> 0, action |-> "spawn_agent", name |-> "coordinator", capability |-> "coordinator", state |-> "booting", parent |-> NULL, depth |-> 0, beadId |-> srvBead],
       [offsetMs |-> 2000, action |-> "change_state", name |-> "coordinator", state |-> "working"],
       [offsetMs |-> 3000, action |-> "add_message", from |-> "coordinator", to |-> "server-lead", type |-> "dispatch", subject |-> <<"Dispatch: ", srvBead>>],
       [offsetMs |-> 4000, action |-> "add_message", from |-> "coordinator", to |-> "client-lead", type |-> "dispatch", subject |-> <<"Dispatch: ", cliBead>>],
       [offsetMs |-> 5000, action |-> "spawn_agent", name |-> "server-lead", capability |-> "lead", state |-> "booting", parent |-> "coordinator", depth |-> 1, beadId |-> srvBead],
       [offsetMs |-> 7000, action |-> "spawn_agent", name |-> "client-lead", capability |-> "lead", state |-> "booting", parent |-> "coordinator", depth |-> 1, beadId |-> cliBead],
       [offsetMs |-> 8000, action |-> "change_state", name |-> "server-lead", state |-> "working"],
       [offsetMs |-> 8500, action |-> "change_state", name |-> "client-lead", state |-> "working"],
       [offsetMs |-> 10000, action |-> "spawn_agent", name |-> "scout-srv", capability |-> "scout", state |-> "booting", parent |-> "server-lead", depth |-> 2, beadId |-> srvBead],
       [offsetMs |-> 11000, action |-> "add_message", from |-> "server-lead", to |-> "scout-srv", type |-> "dispatch", subject |-> <<"Scout: explore server codebase">>],
       [offsetMs |-> 12000, action |-> "spawn_agent", name |-> "scout-cli", capability |-> "scout", state |-> "booting", parent |-> "client-lead", depth |-> 2, beadId |-> cliBead],
       [offsetMs |-> 13000, action |-> "add_message", from |-> "client-lead", to |-> "scout-cli", type |-> "dispatch", subject |-> <<"Scout: explore client codebase">>],
       [offsetMs |-> 14000, action |-> "change_state", name |-> "scout-srv", state |-> "working"],
       [offsetMs |-> 15000, action |-> "change_state", name |-> "scout-cli", state |-> "working"],
       [offsetMs |-> 18000, action |-> "add_message", from |-> "scout-srv", to |-> "server-lead", type |-> "result", subject |-> <<"Scout report: server patterns found">>],
       [offsetMs |-> 20000, action |-> "add_message", from |-> "scout-cli", to |-> "client-lead", type |-> "result", subject |-> <<"Scout report: client patterns found">>],
       [offsetMs |-> 22000, action |-> "change_state", name |-> "scout-srv", state |-> "completed"],
       [offsetMs |-> 24000, action |-> "change_state", name |-> "scout-cli", state |-> "completed"],
       [offsetMs |-> 28000, action |-> "spawn_agent", name |-> "srv-builder-1", capability |-> "builder", state |-> "booting", parent |-> "server-lead", depth |-> 2, beadId |-> srvBead],
       [offsetMs |-> 29000, action |-> "spawn_agent", name |-> "srv-builder-2", capability |-> "builder", state |-> "booting", parent |-> "server-lead", depth |-> 2, beadId |-> srvBead],
       [offsetMs |-> 30000, action |-> "spawn_agent", name |-> "cli-builder-1", capability |-> "builder", state |-> "booting", parent |-> "client-lead", depth |-> 2, beadId |-> cliBead],
       [offsetMs |-> 31000, action |-> "spawn_agent", name |-> "cli-builder-2", capability |-> "builder", state |-> "booting", parent |-> "client-lead", depth |-> 2, beadId |-> cliBead],
       [offsetMs |-> 32000, action |-> "add_message", from |-> "server-lead", to |-> "srv-builder-1", type |-> "dispatch", subject |-> <<"Build: server module A">>],
       [offsetMs |-> 32500, action |-> "add_message", from |-> "server-lead", to |-> "srv-builder-2", type |-> "dispatch", subject |-> <<"Build: server module B">>],
       [offsetMs |-> 33000, action |-> "add_message", from |-> "client-lead", to |-> "cli-builder-1", type |-> "dispatch", subject |-> <<"Build: client module A">>],
       [offsetMs |-> 33500, action |-> "add_message", from |-> "client-lead", to |-> "cli-builder-2", type |-> "dispatch", subject |-> <<"Build: client module B">>],
       [offsetMs |-> 34000, action |-> "change_state", name |-> "srv-builder-1", state |-> "working"],
       [offsetMs |-> 34500, action |-> "change_state", name |-> "srv-builder-2", state |-> "working"],
       [offsetMs |-> 35000, action |-> "change_state", name |-> "cli-builder-1", state |-> "working"],
       [offsetMs |-> 35500, action |-> "change_state", name |-> "cli-builder-2", state |-> "working"],
       [offsetMs |-> 40000, action |-> "add_message", from |-> "srv-builder-1", to |-> "server-lead", type |-> "status", subject |-> <<"Progress: 30% complete">>],
       [offsetMs |-> 45000, action |-> "add_message", from |-> "cli-builder-1", to |-> "client-lead", type |-> "question", subject |-> <<"Question: type definition ambiguity in shared module">>],
       [offsetMs |-> 48000, action |-> "add_message", from |-> "client-lead", to |-> "cli-builder-1", type |-> "result", subject |-> <<"Answer: use the shared interface from types.ts">>],
       [offsetMs |-> 52000, action |-> "add_message", from |-> "srv-builder-2", to |-> "server-lead", type |-> "status", subject |-> <<"Progress: core logic implemented, writing tests">>],
       [offsetMs |-> 55000, action |-> "add_message", from |-> "cli-builder-2", to |-> "client-lead", type |-> "status", subject |-> <<"Progress: 60% complete">>],
       [offsetMs |-> 60000, action |-> "add_message", from |-> "srv-builder-1", to |-> "server-lead", type |-> "status", subject |-> <<"Progress: tests passing, lint clean">>],
       [offsetMs |-> 63000, action |-> "add_message", from |-> "cli-builder-1", to |-> "client-lead", type |-> "status", subject |-> <<"Progress: integration complete">>],
       [offsetMs |-> 66000, action |-> "add_message", from |-> "srv-builder-2", to |-> "server-lead", type |-> "status", subject |-> <<"Progress: ready to finalize">>],
       [offsetMs |-> 72000, action |-> "add_message", from |-> "srv-builder-1", to |-> "server-lead", type |-> "worker_done", subject |-> <<"Worker done: ", srvBead, "-mod-a">>],
       [offsetMs |-> 72500, action |-> "change_state", name |-> "srv-builder-1", state |-> "completed"],
       [offsetMs |-> 73000, action |-> "enqueue_merge", agentName |-> "srv-builder-1", branchName |-> <<"overstory/srv-builder-1/", srvBead>>, beadId |-> srvBead],
       [offsetMs |-> 75000, action |-> "add_message", from |-> "srv-builder-2", to |-> "server-lead", type |-> "worker_done", subject |-> <<"Worker done: ", srvBead, "-mod-b">>],
       [offsetMs |-> 75500, action |-> "change_state", name |-> "srv-builder-2", state |-> "completed"],
       [offsetMs |-> 76000, action |-> "enqueue_merge", agentName |-> "srv-builder-2", branchName |-> <<"overstory/srv-builder-2/", srvBead>>, beadId |-> srvBead],
       [offsetMs |-> 78000, action |-> "add_message", from |-> "cli-builder-1", to |-> "client-lead", type |-> "worker_done", subject |-> <<"Worker done: ", cliBead, "-mod-a">>],
       [offsetMs |-> 78500, action |-> "change_state", name |-> "cli-builder-1", state |-> "completed"],
       [offsetMs |-> 79000, action |-> "enqueue_merge", agentName |-> "cli-builder-1", branchName |-> <<"overstory/cli-builder-1/", cliBead>>, beadId |-> cliBead],
       [offsetMs |-> 82000, action |-> "add_message", from |-> "cli-builder-2", to |-> "client-lead", type |-> "worker_done", subject |-> <<"Worker done: ", cliBead, "-mod-b">>],
       [offsetMs |-> 82500, action |-> "change_state", name |-> "cli-builder-2", state |-> "completed"],
       [offsetMs |-> 83000, action |-> "enqueue_merge", agentName |-> "cli-builder-2", branchName |-> <<"overstory/cli-builder-2/", cliBead>>, beadId |-> cliBead],
       [offsetMs |-> 88000, action |-> "update_merge", branchName |-> <<"overstory/srv-builder-1/", srvBead>>, status |-> "merging"],
       [offsetMs |-> 90000, action |-> "remove_merge", branchName |-> <<"overstory/srv-builder-1/", srvBead>>],
       [offsetMs |-> 91000, action |-> "update_merge", branchName |-> <<"overstory/srv-builder-2/", srvBead>>, status |-> "merging"],
       [offsetMs |-> 92500, action |-> "remove_merge", branchName |-> <<"overstory/srv-builder-2/", srvBead>>],
       [offsetMs |-> 93000, action |-> "update_merge", branchName |-> <<"overstory/cli-builder-1/", cliBead>>, status |-> "merging"],
       [offsetMs |-> 94500, action |-> "remove_merge", branchName |-> <<"overstory/cli-builder-1/", cliBead>>],
       [offsetMs |-> 95000, action |-> "update_merge", branchName |-> <<"overstory/cli-builder-2/", cliBead>>, status |-> "merging"],
       [offsetMs |-> 96500, action |-> "remove_merge", branchName |-> <<"overstory/cli-builder-2/", cliBead>>],
       [offsetMs |-> 98000, action |-> "add_message", from |-> "server-lead", to |-> "coordinator", type |-> "merge_ready", subject |-> <<"Merge ready: ", srvBead>>],
       [offsetMs |-> 100000, action |-> "add_message", from |-> "client-lead", to |-> "coordinator", type |-> "merge_ready", subject |-> <<"Merge ready: ", cliBead>>],
       [offsetMs |-> 102000, action |-> "change_state", name |-> "server-lead", state |-> "completed"],
       [offsetMs |-> 104000, action |-> "change_state", name |-> "client-lead", state |-> "completed"],
       [offsetMs |-> 106000, action |-> "change_state", name |-> "coordinator", state |-> "completed"]
    >>

\* this.timeline as buildTimeline() leaves it when this.cycleCount = cycleCount
TimelineOf(cycleCount) == buildTimeline(getBead(cycleCount, 0), getBead(cycleCount, 1))

\* new DemoSimulator() at time t.  Of the random figures of toMetrics only the
\* cost is kept.  fired lists the timeline positions fired in the current cycle,
\* replayed those of the cycle before.
NewDemoSimulator(t) ==
    [agents |-> <<>>, messages |-> <<>>, mergeQueue |-> <<>>, completedAgents |-> <<>>,
     cycleStartTime |-> t, cycleCount |-> 0, nextEventIndex |-> 0,
     sessionIdCounter |-> 0, msgIdCounter |-> 0, mergeIdCounter |-> 0,
     fired |-> <<>>, replayed |-> <<>>]

\* ModeManager._simulator = null
NoSimulator == [NewDemoSimulator(0) EXCEPT !.cycleStartTime = NullNumber]

\* Map.set(key, value) on a map kept in insertion order, keyed by field k
MapSet(entries, k, value) ==
    IF \E i \in 1..Len(entries) : entries[i][k] = value[k]
    THEN [i \in 1..Len(entries) |-> IF entries[i][k] = value[k] THEN value ELSE entries[i]]
    ELSE Append(entries, value)

\* filesModified of an entry the simulator enqueues, as a decoded string list
SimFiles(agentName) ==
    JsArray(<<JsValue("string", <<"server/", agentName, ".ts">>, <<>>),
              JsValue("string", <<"tests/", agentName, ".test.ts">>, <<>>)>>)

\* DemoSimulator.fireEvent at time t (const now = new Date().toISOString())
fireEvent(sim, event, t) ==
    CASE event.action = "spawn_agent" ->
            [sim EXCEPT !.sessionIdCounter = sim.sessionIdCounter + 1,
                        !.agents = MapSet(sim.agents, "agentName",
                            [id |-> sim.sessionIdCounter + 1, agentName |-> event.name,
                             capability |-> event.capability,
                             branchName |-> <<"overstory", event.name, event.beadId>>,
                             beadId |-> event.beadId, state |-> event.state,
                             parentAgent |-> event.parent, depth |-> event.depth,
                             startedAt |-> ToISOString(t), lastActivity |-> ToISOString(t),
                             escalationLevel |-> 0])]
      [] event.action = "change_state" ->
            [sim EXCEPT !.agents = [i \in 1..Len(sim.agents) |->
                IF sim.agents[i].agentName = event.name
                THEN [sim.agents[i] EXCEPT !.state = event.state,
                                           !.lastActivity = ToISOString(t)]
                ELSE sim.agents[i]]]
      [] event.action = "add_message" ->
            [sim EXCEPT !.msgIdCounter = sim.msgIdCounter + 1,
                        !.messages = Append(sim.messages,
                            [id |-> sim.msgIdCounter + 1, fromAgent |-> event.from,
                             toAgent |-> event.to, subject |-> event.subject,
                             type |-> event.type, createdAt |-> ToISOString(t)]),
                        !.agents = [i \in 1..Len(sim.agents) |->
                            IF sim.agents[i].agentName = event.from
                            THEN [sim.agents[i] EXCEPT !.lastActivity = ToISOString(t)]
                            ELSE sim.agents[i]]]
      [] event.action = "enqueue_merge" ->
            [sim EXCEPT !.mergeIdCounter = sim.mergeIdCounter + 1,
                        !.mergeQueue = MapSet(sim.mergeQueue, "branchName",
                            [id |-> sim.mergeIdCounter + 1, branchName |-> event.branchName,
                             beadId |-> event.beadId, agentName |-> event.agentName,
                             filesModified |-> SimFiles(event.agentName),
                             enqueuedAt |-> ToISOString(t), status |-> "pending"])]
      [] event.action = "update_merge" ->
            [sim EXCEPT !.mergeQueue = [i \in 1..Len(sim.mergeQueue) |->
                IF sim.mergeQueue[i].branchName = event.branchName
                THEN [sim.mergeQueue[i] EXCEPT !.status = event.status]
                ELSE sim.mergeQueue[i]]]
      [] event.action = "remove_merge" ->
            [sim EXCEPT !.mergeQueue =
                SelectSeq(sim.mergeQueue, LAMBDA e : e.branchName # event.branchName)]

\* Math.random() * 0.4 + 0.05 dollars: the least value and one near the greatest
RandomCosts == {CostUnit \div 20, (9 * CostUnit) \div 20 - 1}

\* DemoSimulator.toMetrics at time t, Math.random() having given cost
toMetrics(s, t, cost) ==
    [agentName |-> s.agentName, beadId |-> s.beadId, capability |-> s.capability,
     startedAt |-> s.startedAt, completedAt |-> ToISOString(t),
     exitCode |-> 0, mergeResult |-> "merged", parentAgent |-> s.parentAgent,
     estimatedCostUsd |-> cost, modelUsed |-> SonnetModel]

\* this.messages.slice(-100)
SliceLast(s, n) == IF Len(s) <= n THEN s ELSE SubSeq(s, Len(s) - n + 1, Len(s))

\* DemoSimulator.resetCycle at time t; cost is what Math.random() gives toMetrics
resetCycle(sim, t, cost) ==
    [sim EXCEPT !.completedAgents =
                    sim.completedAgents \o
                    [i \in 1..Len(sim.agents) |-> toMetrics(sim.agents[i], t, cost)],
                !.messages = SliceLast(sim.messages, 100),
                !.agents = <<>>,
                !.mergeQueue = <<>>,
                !.cycleCount = sim.cycleCount + 1,
                !.nextEventIndex = 0,
                !.cycleStartTime = t,
                !.replayed = sim.fired,
                !.fired = <<>>]

RECURSIVE FireDue(_, _, _, _)
\* the while loop of tick at time t: fire the events whose offset has elapsed
FireDue(sim, timeline, elapsed, t) ==
    IF sim.nextEventIndex < Len(timeline)
       /\ elapsed >= timeline[sim.nextEventIndex + 1].offsetMs
    THEN FireDue([fireEvent(sim, timeline[sim.nextEventIndex + 1], t)
                     EXCEPT !.nextEventIndex = sim.nextEventIndex + 1,
                            !.fired = Append(sim.fired, sim.nextEventIndex + 1)],
                 timeline, elapsed, t)
    ELSE sim

\* a tick that fires the due events even when the cycle has run out
tickFiresThenResets(sim, t, cost) ==
    IF t - sim.cycleStartTime >= CYCLE_DURATION_MS
    THEN resetCycle(FireDue(sim, TimelineOf(sim.cycleCount), t - sim.cycleStartTime, t), t, cost)
    ELSE FireDue(sim, TimelineOf(sim.cycleCount), t - sim.cycleStartTime, t)

\* DemoSimulator.tick at time t
tick(sim, t, cost) ==
    IF t - sim.cycleStartTime >= CYCLE_DURATION_MS
    THEN resetCycle(sim, t, cost)
    ELSE FireDue(sim, TimelineOf(sim.cycleCount), t - sim.cycleStartTime, t)

\* ---- ModeManager --------------------------------------------------------------
\* null where a LiveDatabases bundle is expected
NoBundle == <<>>

\* the DemoSimulator as the provider behind the query pointers
Simulator == <<"DemoSimulator">>

\* openLiveDatabases(overstoryDir, projectName): the bundle, named by its
\* directory, or NoBundle when sessions.db has no size or does not open
openLiveDatabases(overstoryDir, openable) ==
    IF overstoryDir \in openable THEN overstoryDir ELSE NoBundle

\* the field initialisers of class ModeManager and the first two assignments of
\* its constructor.  queries is the provider the seven query pointers forward
\* to; handles is the set of bundles whose database handles are open, peak the
\* greatest number of them open at one instant.
NewModeManager(forceDemoMode, overrideDir) ==
    [mode |-> "demo", activeProject |-> NULL, live |-> NoBundle, simulator |-> FALSE,
     projects |-> <<>>, forceDemoMode |-> forceDemoMode, overrideDir |-> overrideDir,
     queries |-> NoBundle, handles |-> {}, peak |-> 0]

\* ModeManager._startDemo
_startDemo(mm) ==
    [mm EXCEPT !.simulator = TRUE, !.mode = "demo", !.activeProject = NULL,
               !.queries = Simulator]

\* ModeManager._setLiveMode
_setLiveMode(mm, live, projectName) ==
    [mm EXCEPT !.mode = "live", !.activeProject = projectName, !.queries = live]

\* if (this._live) { this._live.close(); this._live = null; }
CloseLive(mm) ==
    IF mm.live # NoBundle
    THEN [mm EXCEPT !.handles = mm.handles \ {mm.live}, !.live = NoBundle]
    ELSE mm

\* the handles of a bundle that openLiveDatabases returned
Opened(mm, live) ==
    [mm EXCEPT !.handles = mm.handles \cup {live},
               !.peak = IF Cardinality(mm.handles \cup {live}) > mm.peak
                        THEN Cardinality(mm.handles \cup {live}) ELSE mm.peak]

\* ModeManager._switchToLive
_switchToLive(mm, project, openable) ==
    IF openLiveDatabases(project.overstoryDir, openable) = NoBundle
    THEN CloseLive(mm)
    ELSE _setLiveMode([Opened(CloseLive(mm), project.overstoryDir)
                          EXCEPT !.live = project.overstoryDir, !.simulator = FALSE],
                      project.overstoryDir, project.name)

\* ModeManager._switchToDemo
_switchToDemo(mm) == _startDemo(CloseLive(mm))

\* the loop of onProjectsChanged: the index of the first project that has the
\* greatest positive activeAgents, 0 for null
BestProject(projects) ==
    LET pos == {i \in 1..Len(projects) : projects[i].activeAgents > 0}
        top == {i \in pos : \A j \in pos : projects[j].activeAgents <= projects[i].activeAgents}
    IN IF pos = {} THEN 0 ELSE CHOOSE i \in top : \A j \in top : i <= j

\* onProjectsChanged once best is known
SwitchTo(mm, projects, best, openable) ==
    IF best # 0
    THEN IF mm.mode # "live" \/ mm.activeProject # projects[best].name
         THEN _switchToLive(mm, projects[best], openable)
         ELSE mm
    ELSE IF mm.mode # "demo" THEN _switchToDemo(mm) ELSE mm

\* onProjectsChanged without the override guard
onProjectsChangedUnguarded(mm, projects, openable) ==
    SwitchTo([mm EXCEPT !.projects = projects], projects, BestProject(projects), openable)

\* ModeManager.onProjectsChanged
onProjectsChanged(mm, projects, openable) ==
    IF mm.forceDemoMode \/ mm.overrideDir # Unset
    THEN [mm EXCEPT !.projects = projects]
    ELSE SwitchTo([mm EXCEPT !.projects = projects], projects, BestProject(projects), openable)

\* new ModeManager(forceDemoMode, overrideDir)
ModeManagerNew(forceDemoMode, overrideDir, openable) ==
    IF overrideDir # Unset /\ ~forceDemoMode
       /\ openLiveDatabases(overrideDir, openable) # NoBundle
    THEN _setLiveMode([Opened(NewModeManager(forceDemoMode, overrideDir), overrideDir)
                          EXCEPT !.live = overrideDir],
                      overrideDir, "override")
    ELSE _startDemo(NewModeManager(forceDemoMode, overrideDir))

\* the module before lines 441-457 have run
Loading == [NewModeManager(FALSE, Unset) EXCEPT !.mode = "loading"]

\* lines 441-457: the two managers once the module has loaded, when the first
\* scan lists the project directories in the order of listing
Loaded(env, openable, listing) ==
    LET mm == ModeManagerNew(env.DEMO_MODE, env.OVERSTORY_DIR, openable)
        d == [scan(NewDiscovery, listing).d EXCEPT !.handlers = 1]
        auto == env.OVERSTORY_DIR = Unset /\ ~env.DEMO_MODE
    IN [mm |-> IF auto THEN onProjectsChanged(mm, d.projects, openable) ELSE mm,
        d |-> [d EXCEPT !.timer = auto]]

\* broadcastDashboardState: the clients afterwards
BroadcastClients(key, clients) ==
    [i \in 1..Len(clients) |->
        IF clients[i].state.lastDashboardKey # key
        THEN [clients[i] EXCEPT !.state.lastDashboardKey = key]
        ELSE clients[i]]

\* broadcastDashboardState: what the sockets deliver; a socket that is not open
\* drops the message
BroadcastWire(msg, key, clients, w, ws) ==
    [c \in DOMAIN w |->
        IF /\ ws[c] = "open"
           /\ \E i \in 1..Len(clients) : /\ clients[i].ws = c
                                         /\ clients[i].state.lastDashboardKey # key
        THEN Append(w[c], OnWire(msg))
        ELSE w[c]]

\* broadcastDashboardState()
broadcastDashboardState(mm) ==
    /\ clientStates' = BroadcastClients(dashboardKey(buildDashboardState(mm)), clientStates)
    /\ wire' = BroadcastWire([type |-> "dashboard_state", data |-> buildDashboardState(mm)],
                             dashboardKey(buildDashboardState(mm)), clientStates, wire, wsState)

\* what the other callbacks' variables do during a discovery callback
UnchangedPipeline ==
    /\ UNCHANGED <<lastId, costSamples, smoothedCostPerMinute, now, wsState, faults, hist, liveDb, swarmSocket>>
    /\ UnchangedStores

\* this._simulator after a call that took the manager from before to after at
\* time t: _startDemo runs exactly when no simulator was held before
SimulatorAfter(before, after, sim, t) ==
    IF ~after.simulator THEN NoSimulator
    ELSE IF before.simulator THEN sim
    ELSE NewDemoSimulator(t)

\* the directories whose sessions.db exists, has a size and opens.  fs.present
\* holds the project directories in which .overstory/sessions.db exists,
\* fs.openable the store directories whose sessions.db, where it exists, is
\* not empty.
CanOpen(f) ==
    {dir \in f.openable :
        dir = OVERSTORY_DIR \/ \E path \in f.present : OverstoryDirOf(path) = dir}

\* notifyHandlers after the operation whose outcome is r: the handler of lines
\* 447-451 runs once per registration, with this.projects
Notify(r, fn, args) ==
    /\ discovery' = r.d
    /\ IF r.notify /\ r.d.handlers > 0
       THEN /\ modeManager' = onProjectsChanged(modeManager, r.d.projects, CanOpen(fs))
            /\ simulator' = SimulatorAfter(modeManager, modeManager', simulator, now)
            /\ broadcastDashboardState(modeManager')
       ELSE UNCHANGED <<modeManager, simulator, clientStates, wire>>
    /\ probe' = [fn |-> fn, args |-> args,
                 result |-> IF r.notify THEN [h \in 1..r.d.handlers |-> r.d.projects]
                            ELSE <<>>]

\* the module loads: lines 441-457 run with the environment as it is
Boot(listing) ==
    /\ modeManager.mode = "loading"
    /\ listing \in Listings(fs.present)
    /\ modeManager' = Loaded(fs.env, CanOpen(fs), listing).mm
    /\ discovery' = Loaded(fs.env, CanOpen(fs), listing).d
    /\ simulator' = SimulatorAfter(modeManager, modeManager', simulator, now)
    /\ probe' = [fn |-> "load", args |-> <<listing>>, result |-> <<>>]
    /\ UNCHANGED <<fs, clientStates, wire>>
    /\ UnchangedPipeline

\* the discovery timer fires: DiscoveryManager.scan
Scan(listing) ==
    /\ discovery.timer
    /\ listing \in Listings(fs.present)
    /\ Notify(scan(discovery, listing), "scan", <<listing>>)
    /\ UNCHANGED fs
    /\ UnchangedPipeline

\* DiscoveryManager.updateActiveAgents(projectName, count), as the poll loop
\* calls it with a count it read from a sessions store
UpdateActiveAgents(projectName, count) ==
    /\ modeManager.mode # "loading"
    /\ Notify(updateActiveAgents(discovery, projectName, count),
              "updateActiveAgents", <<projectName, count>>)
    /\ UNCHANGED fs
    /\ UnchangedPipeline

\* the setInterval callback while the manager holds a simulator and no client
\* is connected: modeManager.tick(), then the early return.  delta is the time
\* since the previous run of the callback; a late run counts as a fault.
DemoTick(delta) ==
    /\ modeManager.simulator
    /\ clientStates = <<>>
    /\ simulator.cycleCount < MaxSimCycles
    /\ delta > POLL_INTERVAL_MS => faults < MaxFaults
    /\ faults' = IF delta > POLL_INTERVAL_MS THEN faults + 1 ELSE faults
    /\ now' = now + delta
    /\ \E cost \in RandomCosts : simulator' = tick(simulator, now', cost)
    /\ UNCHANGED <<modeManager, discovery, fs, probe, clientStates, wire>>
    /\ UNCHANGED <<lastId, costSamples, smoothedCostPerMinute, wsState, hist, liveDb, swarmSocket>>
    /\ UnchangedStores

\* ---- the provider behind the query pointers ---------------------------------
\* DemoSimulator.querySessions: Array.from(this.agents.values())
simQuerySessions(sim) == sim.agents

\* DemoSimulator.queryRecentMessages: this.messages.slice(-50)
simQueryRecentMessages(sim) == SliceLast(sim.messages, 50)

\* DemoSimulator.queryNewMessages: filter(m => m.createdAt > since)
simQueryNewMessages(sim, since) ==
    SelectSeq(sim.messages, LAMBDA m : TextGT(m.createdAt, since))

\* DemoSimulator.queryMessageCount
simQueryMessageCount(sim) == Len(sim.messages)

\* DemoSimulator.queryMergeQueue: the values that are pending or merging
simQueryMergeQueue(sim) ==
    SelectSeq(sim.mergeQueue, LAMBDA e : e.status \in {"pending", "merging"})

\* DemoSimulator.queryMetricsSessions: [...this.completedAgents]
simQueryMetricsSessions(sim) == sim.completedAgents

\* a second project, whose stores never change: sessions.db holds one working
\* session, mail.db and merge-queue.db are empty, there is no metrics.db and
\* events.db holds no event (MAX(id) ?? 0 is 0)
OtherPath == join(PROJECT_ROOTS[1], "q")

OtherSessions == <<mapSession(NewSessionRow("a2"))>>

\* the bundle b reads the stores of the second project
ReadsOther(b) == b = OverstoryDirOf(OtherPath)

\* modeManager.querySessions()
SessionsVia(mm, sim) ==
    IF mm.queries = Simulator THEN simQuerySessions(sim)
    ELSE IF ReadsOther(mm.queries) THEN OtherSessions
    ELSE querySessions

\* initialMaxEventId of a bundle opened on the stores of directory dir
InitialMaxEventIdOf(dir) == IF ReadsOther(dir) THEN 0 ELSE MaxEventId

\* buildSnapshot through the query pointers of mm, sim being the simulator held
buildSnapshotVia(mm, sim, samples, smoothed, t) ==
    IF mm.queries = Simulator
    THEN buildSnapshotFrom(simQuerySessions(sim), simQueryRecentMessages(sim),
                           simQueryMergeQueue(sim), simQueryMetricsSessions(sim),
                           simQueryMessageCount(sim),
                           computeMetrics(simQuerySessions(sim), simQueryMessageCount(sim),
                                          simQueryMetricsSessions(sim), smoothed),
                           samples, smoothed, t)
    ELSE IF ReadsOther(mm.queries)
    THEN buildSnapshotFrom(OtherSessions, <<>>, <<>>, <<>>, 0,
                           computeMetrics(OtherSessions, 0, <<>>, smoothed),
                           samples, smoothed, t)
    ELSE buildSnapshot(samples, smoothed, t)

\* computeUpdates through the query pointers of mm; _startDemo sets
\* queryNewEvents to () => []
computeUpdatesVia(mm, sim, state, closureLastId, samples, smoothed, t) ==
    IF mm.queries = Simulator
    THEN computeUpdatesFrom(state, simQuerySessions(sim),
                            MapSeq1(simQueryNewMessages(sim, state.lastMessageTimestamp),
                                    toAgentMessage),
                            MapSeq1(simQueryMergeQueue(sim), toVizMergeEntry),
                            [rows |-> <<>>, lastId |-> closureLastId],
                            simQueryMessageCount(sim),
                            computeMetrics(simQuerySessions(sim), simQueryMessageCount(sim),
                                           simQueryMetricsSessions(sim), smoothed),
                            closureLastId, samples, smoothed, t, "none")
    ELSE IF ReadsOther(mm.queries)
    THEN computeUpdatesFrom(state, OtherSessions, <<>>, <<>>,
                            [rows |-> <<>>, lastId |-> closureLastId], 0,
                            computeMetrics(OtherSessions, 0, <<>>, smoothed),
                            closureLastId, samples, smoothed, t, "none")
    ELSE computeUpdates(state, closureLastId, samples, smoothed, t, "none")

\* ModeManager.pollActiveAgentCount
pollActiveAgentCount(mm, sim) ==
    IF mm.mode # "live" THEN 0
    ELSE Cardinality({i \in 1..Len(SessionsVia(mm, sim)) :
                         SessionsVia(mm, sim)[i].state \in {"working", "booting"}})

\* websocket.open(ws) in whatever mode the manager is in, no send failing
OpenVia(c) ==
    /\ wsState[c] = "connecting"
    /\ modeManager.mode # "loading"
    /\ Register(c, "none",
                buildSnapshotVia(modeManager, simulator, costSamples, smoothedCostPerMinute, now))
    /\ UNCHANGED <<lastId, now, modeManager, discovery, fs, simulator, probe, liveDb, swarmSocket, faults>>
    /\ UnchangedStores

\* ---- the poll loop in every mode ------------------------------------------------
\* the handler of discovery.onChange running inside the poll loop at time
\* acc.t, onProjectsChanged having taken the manager to mm2: a bundle that was
\* opened starts its event cursor at MAX(id); then broadcastDashboardState
HandlerRan(acc, r, mm2) ==
    [acc EXCEPT !.d = r.d,
                !.mm = mm2,
                !.sim = SimulatorAfter(acc.mm, mm2, acc.sim, acc.t),
                !.lastId = IF mm2.live # NoBundle /\ mm2.live # acc.mm.live
                           THEN InitialMaxEventIdOf(mm2.live) ELSE @,
                !.clients = BroadcastClients(dashboardKey(buildDashboardState(mm2)), acc.clients),
                !.wire = BroadcastWire([type |-> "dashboard_state",
                                        data |-> buildDashboardState(mm2)],
                                       dashboardKey(buildDashboardState(mm2)),
                                       acc.clients, acc.wire, wsState)]

\* notifyHandlers inside the poll loop, after the operation whose outcome is r
NotifyIn(acc, r) ==
    IF r.notify /\ r.d.handlers > 0
    THEN HandlerRan(acc, r, onProjectsChanged(acc.mm, r.d.projects, CanOpen(fs)))
    ELSE [acc EXCEPT !.d = r.d]

\* lines 781-785: the active project's count is read through the open handles
ProbeActive(acc) ==
    IF acc.mm.mode = "live" /\ acc.mm.activeProject # NULL
    THEN NotifyIn(acc, updateActiveAgents(acc.d, acc.mm.activeProject,
                                          pollActiveAgentCount(acc.mm, acc.sim)))
    ELSE acc

\* a sessions.db that has no size, does not open or is locked: the project is
\* skipped for this run
Skipped == NullNumber

RECURSIVE ProbeOthers(_, _, _)
\* lines 787-803: for (const project of discovery.getProjects()), from entry i
\* on; reads[i] is the count that entry's sessions.db gives, or Skipped
ProbeOthers(i, acc, reads) ==
    IF i > Len(acc.d.projects) THEN acc
    ELSE IF \/ acc.mm.mode = "live" /\ acc.d.projects[i].name = acc.mm.activeProject
            \/ reads[i] = Skipped
            \/ reads[i] = acc.d.projects[i].activeAgents
         THEN ProbeOthers(i + 1, acc, reads)
         ELSE ProbeOthers(i + 1,
                          NotifyIn(acc, updateActiveAgents(acc.d, acc.d.projects[i].name,
                                                           reads[i])),
                          reads)

RECURSIVE PollClientsVia(_, _)
\* lines 805-815, no query and no send failing
PollClientsVia(i, acc) ==
    IF i > Len(acc.clients) THEN acc
    ELSE PollClientsVia(i + 1,
            TrySends(i, acc,
                     computeUpdatesVia(acc.mm, acc.sim, acc.clients[i].state, acc.lastId,
                                       acc.samples, acc.smoothed, acc.t),
                     0, NoFault))

\* the state the callback leaves behind
AfterPollLoop(acc) ==
    /\ AfterPoll(acc)
    /\ modeManager' = acc.mm
    /\ discovery' = acc.d
    /\ simulator' = acc.sim

\* the project directory whose stores the five tables hold when no
\* OVERSTORY_DIR is set
TablesPath == join(PROJECT_ROOTS[1], "p")

\* SELECT COUNT(*) ... WHERE state IN ('working', 'booting') on the tables
TablesActiveCount ==
    Cardinality({i \in 1..Len(sessionsTable) : sessionsTable[i].state \in {"working", "booting"}})

\* what the sessions.db of each discovered project can give the probing loop
ProbeReads ==
    {reads \in [1..Len(discovery.projects) -> {Skipped} \cup 0..MaxAgents] :
        \A i \in 1..Len(discovery.projects) :
            /\ discovery.projects[i].overstoryDir \notin CanOpen(fs) => reads[i] = Skipped
            /\ discovery.projects[i].path = TablesPath => reads[i] \in {Skipped, TablesActiveCount}
            /\ discovery.projects[i].path = OtherPath => reads[i] \in {Skipped, 1}}

\* the callback once modeManager.tick() has run and clients are connected:
\* the probe through the open handles, the probes of the other projects, the
\* updates.  sim is the simulator after modeManager.tick().
ProbeAndPoll(sim, reads) ==
    \E probed \in {ProbeActive([clients |-> clientStates, lastId |-> lastId,
                                samples |-> costSamples, smoothed |-> smoothedCostPerMinute,
                                wire |-> wire, hist |-> hist, t |-> now',
                                mm |-> modeManager, d |-> discovery, sim |-> sim])} :
        \E counted \in {ProbeOthers(1, probed, reads)} :
            \E polled \in {PollClientsVia(1, counted)} : AfterPollLoop(polled)

\* the setInterval callback (lines 773-816) in any mode: modeManager.tick(),
\* the early return, the probes, the updates
PollLoop(reads) ==
    /\ modeManager.mode # "loading"
    /\ reads \in ProbeReads
    /\ now' = now + POLL_INTERVAL_MS
    /\ \E cost \in RandomCosts :
         \E sim \in {IF modeManager.simulator THEN tick(simulator, now', cost) ELSE simulator} :
            IF clientStates = <<>>
            THEN /\ simulator' = sim
                 /\ UNCHANGED <<modeManager, discovery, clientStates, lastId, costSamples,
                                smoothedCostPerMinute, wire, hist>>
            ELSE ProbeAndPoll(sim, reads)
    /\ UNCHANGED <<fs, wsState, probe, liveDb, swarmSocket, faults>>
    /\ UnchangedStores

\* ---- client/main.ts: the message handler --------------------------------------
\* the page before any message: the empty snapshot of line 25, nothing drawn,
\* currentDashboardState = null
NewPage == [agents |-> <<>>, messages |-> <<>>, mergeQueue |-> <<>>,
            sceneAgents |-> <<>>, sceneMessages |-> <<>>, sceneMerge |-> <<>>,
            mode |-> NULL]

\* idx >= 0 ? list[idx] = value : list = [...list, value], by field k
Upsert(list, k, value) ==
    IF \E i \in 1..Len(list) : list[i][k] = value[k]
    THEN [i \in 1..Len(list) |->
            IF i = FirstWith(list, k, value[k]) THEN value ELSE list[i]]
    ELSE Append(list, value)

\* scene.applySnapshot(snapshot): the scene shows what the snapshot holds
Drawn(page) ==
    [page EXCEPT !.sceneAgents = page.agents, !.sceneMessages = page.messages,
                 !.sceneMerge = page.mergeQueue]

\* case "agent_update" ... case "tool_event"
onUpdate(page, update) ==
    CASE update.type = "agent_update" ->
            Drawn([page EXCEPT !.agents = Upsert(page.agents, "name", update.data)])
      [] update.type = "message_event" ->
            [page EXCEPT !.messages = Append(page.messages, update.data),
                         !.sceneMessages = Append(page.sceneMessages, update.data)]
      [] update.type = "merge_update" ->
            Drawn([page EXCEPT !.mergeQueue = Upsert(page.mergeQueue, "branchName", update.data)])
      [] OTHER -> page

\* the onMessage callback passed to createWebSocket
onMessage(page, msg) ==
    CASE msg.type = "snapshot" ->
            Drawn([page EXCEPT !.agents = msg.data.agents, !.messages = msg.data.messages,
                               !.mergeQueue = msg.data.mergeQueue])
      [] msg.type = "dashboard_state" ->
            IF page.mode # NULL /\ page.mode # msg.data.mode
            THEN [page EXCEPT !.mode = msg.data.mode, !.sceneAgents = <<>>,
                              !.sceneMessages = <<>>, !.sceneMerge = <<>>]
            ELSE [page EXCEPT !.mode = msg.data.mode]
      [] msg.type = "update" -> onUpdate(page, msg.data)

RECURSIVE PageAfter(_, _)
\* the page after the messages of w, in order
PageAfter(page, w) ==
    IF w = <<>> THEN page
    ELSE CHOOSE last \in {PageAfter(next, rest) : next \in {onMessage(page, Head(w))},
                                                 rest \in {Tail(w)}} : TRUE

\* the page of the client behind connection c
Page(c) == PageAfter(NewPage, wire[c])

\* ---- the environment of discovery ------------------------------------------
UnchangedManagers ==
    /\ UNCHANGED <<modeManager, discovery, simulator, probe, clientStates, wire>>
    /\ UnchangedPipeline

\* a project directory with .overstory/sessions.db appears
ProjectAppears(path) ==
    /\ path \notin fs.present
    /\ fs' = [fs EXCEPT !.present = fs.present \cup {path}]
    /\ UnchangedManagers

\* a project directory, or its .overstory/sessions.db, disappears
ProjectDisappears(path) ==
    /\ path \in fs.present
    /\ fs' = [fs EXCEPT !.present = fs.present \ {path}]
    /\ UnchangedManagers

\* a sessions.db is truncated to size 0
StoreBreaks(dir) ==
    /\ dir \in fs.openable
    /\ fs' = [fs EXCEPT !.openable = fs.openable \ {dir}]
    /\ UnchangedManagers

\* an empty sessions.db is written again
StoreRecovers(dir) ==
    /\ dir \notin fs.openable
    /\ fs' = [fs EXCEPT !.openable = fs.openable \cup {dir}]
    /\ UnchangedManagers

\* ---- LiveDatabases: handles and statements -----------------------------------
\* the store files of an overstory instance
Stores == {"sessions", "mail", "merge-queue", "metrics", "events"}

OptionalStores == Stores \ {"sessions"}

\* null where a Database handle is expected
NoHandle == "none"

\* openDb(path, label, false) on the file of store, files being the store files
\* that exist with a size: the handle returned and the handles created on the
\* way, in order (read-write for WAL recovery, closed at once, then read-only)
openDb(files, store) ==
    IF store \in files
    THEN [db |-> "readonly", created |-> {<<store, "readwrite">>, <<store, "readonly">>}]
    ELSE [db |-> NoHandle, created |-> {}]

\* the events handle of lines 138-146: new Database(p), read-write, kept
openEventsDb(files) ==
    IF "events" \in files
    THEN [db |-> "readwrite", created |-> {<<"events", "readwrite">>}]
    ELSE [db |-> NoHandle, created |-> {}]

\* no bundle: openLiveDatabases has not run, or returned null
NoLiveDb ==
    [open |-> FALSE, handles |-> [s \in Stores |-> NoHandle],
     stmts |-> [s \in Stores |-> FALSE], created |-> {}, raised |-> FALSE]

\* openLiveDatabases once sessions.db is open: the closure state of the bundle
\* it returns.  handles: sessionsDb, mailDb, mergeQueueDb, metricsDb, eventsDb;
\* stmts: whether the statements on that store were prepared (stmtAllSessions,
\* the three mail statements, stmtMergeQueue, metricsStmts, stmtNewEvents);
\* created: every handle created so far, with its mode; raised: whether the
\* last call of a query helper raised.
LiveDatabases(files) ==
    [open |-> TRUE,
     handles |-> [s \in Stores |->
                    IF s = "events" THEN openEventsDb(files).db ELSE openDb(files, s).db],
     stmts |-> [s \in Stores |-> s \in files],
     created |-> UNION {IF s = "events" THEN openEventsDb(files).created
                        ELSE openDb(files, s).created : s \in Stores},
     raised |-> FALSE]

\* initialMaxEventId
InitialMaxEventId(files) == IF "events" \in files THEN MaxEventId ELSE 0

\* the seven query helpers and the store each one reads
Helpers ==
    [querySessions |-> "sessions", queryRecentMessages |-> "mail",
     queryNewMessages |-> "mail", queryMessageCount |-> "mail",
     queryMergeQueue |-> "merge-queue", queryMetricsSessions |-> "metrics",
     queryNewEvents |-> "events"]

\* what the statement of a helper returns when it runs, cursor being the
\* closure variable of queryNewEvents
StatementRows(helper, since, cursor) ==
    CASE helper = "querySessions" -> querySessions
      [] helper = "queryRecentMessages" -> queryRecentMessages
      [] helper = "queryNewMessages" -> queryNewMessages(since)
      [] helper = "queryMessageCount" -> <<queryMessageCount>>
      [] helper = "queryMergeQueue" -> queryMergeQueue
      [] helper = "queryMetricsSessions" -> queryMetricsSessions
      [] OTHER -> queryNewEvents(0, cursor).rows

\* what a helper returns when it has no statement to run
EmptyResult(helper) == IF helper = "queryMessageCount" THEN <<0>> ELSE <<>>

\* the first lines of queryMetricsSessions: no statements and no handle, so
\* openDb is tried again
probeMetrics(db, files) ==
    IF ~db.stmts["metrics"] /\ db.handles["metrics"] = NoHandle
    THEN [db EXCEPT !.handles["metrics"] = openDb(files, "metrics").db,
                    !.stmts["metrics"] = openDb(files, "metrics").db # NoHandle,
                    !.created = @ \cup openDb(files, "metrics").created]
    ELSE db

\* the catch block of a helper: queryMetricsSessions drops its statements and
\* its handle, queryNewEvents keeps both; the other helpers have none
Caught(db, helper) ==
    IF helper = "queryMetricsSessions"
    THEN [db EXCEPT !.stmts["metrics"] = FALSE, !.handles["metrics"] = NoHandle]
    ELSE db

\* one call of a helper on the bundle db, after its probing (if any); fails
\* says whether the statement raises when it runs (SQLITE_BUSY and the like).
\* Result: the bundle and the closure variable afterwards, and what the call
\* returned (nothing when it raised).
CallProbed(db, helper, since, cursor, fails) ==
    IF ~db.stmts[Helpers[helper]]
    THEN [db |-> [db EXCEPT !.raised = FALSE], lastId |-> cursor,
          result |-> EmptyResult(helper)]
    ELSE IF ~fails
    THEN [db |-> [db EXCEPT !.raised = FALSE],
          lastId |-> IF helper = "queryNewEvents"
                     THEN queryNewEvents(0, cursor).lastId ELSE cursor,
          result |-> StatementRows(helper, since, cursor)]
    ELSE IF helper \in {"queryMetricsSessions", "queryNewEvents"}
    THEN [db |-> [Caught(db, helper) EXCEPT !.raised = FALSE], lastId |-> cursor,
          result |-> <<>>]
    ELSE [db |-> [db EXCEPT !.raised = TRUE], lastId |-> cursor, result |-> <<>>]

\* one call of a query helper of the bundle
CallHelper(db, files, helper, since, cursor, fails) ==
    CallProbed(IF helper = "queryMetricsSessions" THEN probeMetrics(db, files) ELSE db,
               helper, since, cursor, fails)

\* LiveDatabases.close
closeLiveDb(db) == [db EXCEPT !.open = FALSE, !.handles = [s \in Stores |-> NoHandle]]

UnchangedAroundBundle ==
    /\ UNCHANGED <<clientStates, costSamples, smoothedCostPerMinute, now, modeManager,
                   discovery, simulator, wsState, wire, faults, hist, swarmSocket>>
    /\ UnchangedStores

\* openLiveDatabases(overstoryDir, projectName) on an instance whose sessions.db
\* opens
OpenLive ==
    /\ ~liveDb.open
    /\ liveDb.created = {}
    /\ liveDb' = LiveDatabases(fs.files)
    /\ lastId' = InitialMaxEventId(fs.files)
    /\ probe' = [fn |-> "openLiveDatabases", args |-> <<>>, result |-> <<>>]
    /\ UNCHANGED fs
    /\ UnchangedAroundBundle

\* a query helper of the open bundle is called, as buildSnapshot and
\* computeUpdates call them
Query(helper, since, fails) ==
    /\ liveDb.open
    /\ fails => probeMetrics(liveDb, fs.files).stmts[Helpers[helper]]
    /\ liveDb' = CallHelper(liveDb, fs.files, helper, since, lastId, fails).db
    /\ lastId' = CallHelper(liveDb, fs.files, helper, since, lastId, fails).lastId
    /\ probe' = [fn |-> helper, args |-> <<since, fails>>,
                 result |-> CallHelper(liveDb, fs.files, helper, since, lastId, fails).result]
    /\ UNCHANGED fs
    /\ UnchangedAroundBundle

\* another process creates the file of an optional store and fills it
StoreFileAppears(store) ==
    /\ store \in OptionalStores \ fs.files
    /\ fs' = [fs EXCEPT !.files = @ \cup {store}]
    /\ UNCHANGED <<liveDb, lastId, probe>>
    /\ UnchangedAroundBundle

\* ---- client/websocket.ts: createWebSocket ------------------------------------
\* the closure of one createWebSocket call.  sockets lists the WebSocket objects
\* created, by state, with two flags kept for the properties (afterClose: the
\* wrapper was closed when the socket was created; lateClose: it was closed
\* when the socket's close event arrived); timers lists the setTimeout calls,
\* by state, with the delay and the socket whose close listener made the call;
\* ws and reconnectTimer are positions in these lists, 0 for null.
NoSwarmSocket == [sockets |-> <<>>, timers |-> <<>>, ws |-> 0, reconnectTimer |-> 0,
                  closed |-> FALSE]

\* connect(): ws = new WebSocket(url), with its four listeners
connect(sw) ==
    [sw EXCEPT !.sockets = Append(sw.sockets, [state |-> "connecting", afterClose |-> sw.closed,
                                               lateClose |-> FALSE]),
               !.ws = Len(sw.sockets) + 1]

\* ws.close() on socket i (0: ws is null): a socket that is connecting or open
\* starts closing, any other is left as it is
wsClose(sw, i) ==
    IF i # 0 /\ sw.sockets[i].state \in {"connecting", "open"}
    THEN [sw EXCEPT !.sockets[i].state = "closing"]
    ELSE sw

\* a close listener that schedules the reconnect whatever closed is
onCloseAlways(sw, i) ==
    [sw EXCEPT !.sockets[i].state = "closed", !.sockets[i].lateClose = sw.closed,
               !.timers = Append(sw.timers, [state |-> "pending", delay |-> 3000, by |-> i]),
               !.reconnectTimer = Len(sw.timers) + 1]

\* the close listener of socket i: if (!closed) reconnectTimer = setTimeout(connect, 3000)
onClose(sw, i) ==
    IF ~sw.closed
    THEN [sw EXCEPT !.sockets[i].state = "closed",
                    !.timers = Append(sw.timers, [state |-> "pending", delay |-> 3000, by |-> i]),
                    !.reconnectTimer = Len(sw.timers) + 1]
    ELSE [sw EXCEPT !.sockets[i].state = "closed", !.sockets[i].lateClose = TRUE]

\* the error listener of socket i: ws?.close(), on the socket ws refers to; the
\* browser then closes the socket that failed
onError(sw, i) == [wsClose(sw, sw.ws) EXCEPT !.sockets[i].state = "closing"]

\* the close() method of the returned object
closeWrapper(sw) ==
    wsClose([sw EXCEPT !.closed = TRUE,
                       !.timers = IF sw.reconnectTimer # 0
                                     /\ sw.timers[sw.reconnectTimer].state = "pending"
                                  THEN [sw.timers EXCEPT ![sw.reconnectTimer].state = "cleared"]
                                  ELSE sw.timers,
                       !.reconnectTimer = 0],
            sw.ws)

UnchangedServerSide ==
    /\ UNCHANGED <<lastId, clientStates, costSamples, smoothedCostPerMinute, now, modeManager,
                   discovery, fs, simulator, wsState, wire, faults, hist, liveDb, probe>>
    /\ UnchangedStores

\* createWebSocket(url, onMessage, onStatusChange) is called
CreateWebSocket ==
    /\ swarmSocket = NoSwarmSocket
    /\ swarmSocket' = connect(swarmSocket)
    /\ UnchangedServerSide

\* the open event of socket i
SocketOpens(i) ==
    /\ swarmSocket.sockets[i].state = "connecting"
    /\ swarmSocket' = [swarmSocket EXCEPT !.sockets[i].state = "open"]
    /\ UnchangedServerSide

\* the error event of socket i
SocketErrors(i) ==
    /\ swarmSocket.sockets[i].state \in {"connecting", "open"}
    /\ swarmSocket' = onError(swarmSocket, i)
    /\ UnchangedServerSide

\* the close event of socket i: the server or the network ended the
\* connection, the handshake failed, or ws.close() has completed
SocketCloses(i) ==
    /\ swarmSocket.sockets[i].state # "closed"
    /\ swarmSocket' = onClose(swarmSocket, i)
    /\ UnchangedServerSide

\* the timer k runs connect
TimerFires(k) ==
    /\ swarmSocket.timers[k].state = "pending"
    /\ Len(swarmSocket.sockets) < MaxSockets
    /\ swarmSocket' = connect([swarmSocket EXCEPT !.timers[k].state = "fired"])
    /\ UnchangedServerSide

\* the caller closes the wrapper (a second call is allowed)
WrapperCloses ==
    /\ swarmSocket # NoSwarmSocket
    /\ swarmSocket' = closeWrapper(swarmSocket)
    /\ swarmSocket' # swarmSocket
    /\ UnchangedServerSide

\* ---- the process ------------------------------------------------------------
\* The state after the module has loaded with OVERSTORY_DIR set and the live
\* bundle opened: live mode, auto-switching frozen, no client yet.
InitPipeline ==
    /\ sessionsTable = <<NewSessionRow("a1")>>
    /\ mailTable \in {<<>>, <<[id |-> 1, created_at |-> ToISOString(1)]>>}
    /\ mergeTable = <<>>
    /\ eventsTable = <<[id |-> 1, agent_name |-> "a1", tool_name |-> "Bash",
                        event_type |-> "tool_start", created_at |-> ToISOString(1)]>>
    /\ metricsTable = <<>>
    /\ lastId = MaxEventId
    /\ clientStates = <<>>
    /\ costSamples = <<>>
    /\ smoothedCostPerMinute = [num |-> 0, den |-> 1]
    /\ now = 0
    /\ wsState = [c \in Conns |-> "connecting"]
    /\ wire = [c \in Conns |-> <<>>]
    /\ faults = 0
    /\ hist = [c \in Conns |-> NoHist]
    /\ liveDb = LiveDatabases(Stores)
    /\ swarmSocket = NoSwarmSocket

InitServer ==
    /\ InitPipeline
    /\ fs = [present |-> {}, openable |-> {OVERSTORY_DIR}, files |-> Stores,
             env |-> [DEMO_MODE |-> FALSE, OVERSTORY_DIR |-> OVERSTORY_DIR]]
    /\ modeManager = Loaded(fs.env, CanOpen(fs), <<>>).mm
    /\ discovery = Loaded(fs.env, CanOpen(fs), <<>>).d
    /\ simulator = NoSimulator

Init == InitServer /\ probe = NoProbe

\* the external writer, store by store
SessionWriter(a) ==
    \/ WriterSpawn(a)
    \/ WriterSetState(a)
    \/ WriterTouch(a)
    \/ WriterEscalate(a)

MailWriter == \E ts \in 1..MaxTs : WriterMail(ts)

MergeWriter == \E b \in Branches : WriterEnqueue(b) \/ WriterMergeStatus(b)

EventWriter == \E ty \in EventTypes : WriterEvent(ty)

MetricsWriter == \E a \in Agents, cost \in {NullNumber, CostUnit} : WriterMetrics(a, cost)

OpenOk(c) == Open(c, "none")

OpenFails(c) == \E f \in OpenFaults : Open(c, f)

TickOk == Tick(0, NoFault)

TickFails == \E fc \in 1..Cardinality(Conns), fk \in PollFaults : Tick(fc, fk)

\* one client; every store is written (one agent's state, a second agent, one
\* message, one branch, one streamed event, one metrics record); no failure
Next ==
    \/ WriterSetState("a1")
    \/ WriterSpawn("a2")
    \/ (WriterMail(1) /\ mailTable = <<>>)
    \/ WriterEnqueue(<<"b1">>)
    \/ (WriterEvent("tool_start") /\ Len(eventsTable) < 2)
    \/ WriterMetrics("a1", CostUnit)
    \/ OpenOk("c1")
    \/ Close("c1")
    \/ TickOk

Spec == Init /\ [][Next]_vars

\* one client; the sessions store is written (every column of a1, a2 appears);
\* no failure
NextAgents ==
    \/ SessionWriter("a1")
    \/ WriterSpawn("a2")
    \/ OpenOk("c1")
    \/ Close("c1")
    \/ TickOk

SpecAgents == Init /\ [][NextAgents]_vars

\* one client; the mail store is written; no failure
NextMail ==
    \/ MailWriter
    \/ OpenOk("c1")
    \/ Close("c1")
    \/ TickOk

SpecMail == Init /\ [][NextMail]_vars

\* two clients; the events store is written; no failure
NextEvents ==
    \/ EventWriter
    \/ \E c \in Conns : OpenOk(c)
    \/ \E c \in Conns : Close(c)
    \/ TickOk

SpecEvents == Init /\ [][NextEvents]_vars

\* two clients; the mail store is written (up to two messages, each stamped later
\* than the one before); queries and sends may raise
NextFaults ==
    \/ (WriterMail(Len(mailTable) + 1) /\ Len(mailTable) < 2)
    \/ \E c \in Conns : OpenOk(c)
    \/ \E c \in Conns : OpenFails(c)
    \/ \E c \in Conns : Close(c)
    \/ TickOk
    \/ TickFails

SpecFaults == Init /\ [][NextFaults]_vars

\* ---- agentKey on its own -----------------------------------------------------
\* rows of the sessions table that differ in every column the mappers read
SessionRows ==
    [agent_name : {"a1"}, capability : {"builder", "some-future-capability"},
     state : {"working", "completed"}, parent_agent : {NULL, "a0"}, depth : {0, 1},
     bead_id : {""}, started_at : {ToISOString(1)},
     last_activity : {ToISOString(t) : t \in 1..MaxTs},
     escalation_level : 0..MaxEscalation]

InitKey ==
    /\ InitServer
    /\ probe \in [fn : {"agentKey"}, args : SessionRows \X SessionRows, result : {<<>>}]

\* agentKey(toAgent(session)) for the two rows, as computeUpdates and
\* initClientState compute it
ApplyAgentKey ==
    /\ probe.fn = "agentKey"
    /\ probe.result = <<>>
    /\ probe' = [probe EXCEPT !.result = <<agentKey(toAgent(mapSession(probe.args[1]))),
                                           agentKey(toAgent(mapSession(probe.args[2])))>>]
    /\ UNCHANGED <<lastId, clientStates, costSamples, smoothedCostPerMinute, now,
                   modeManager, discovery, fs, simulator, wsState, wire, faults, hist, liveDb, swarmSocket>>
    /\ UnchangedStores

NextKey == ApplyAgentKey

SpecKey == InitKey /\ [][NextKey]_vars

\* ---- discovery and mode selection ------------------------------------------
\* the process before the module body has run, in an environment env whose
\* stores in openable can be opened
InitLoading(envs, openables) ==
    /\ InitPipeline
    /\ probe = NoProbe
    /\ modeManager = Loading
    /\ discovery = NewDiscovery
    /\ simulator = NoSimulator
    /\ fs \in [present : SUBSET ProjectPaths, openable : openables, files : {Stores}, env : envs]

AutoEnv == [DEMO_MODE |-> FALSE, OVERSTORY_DIR |-> Unset]

FrozenEnvs == {[DEMO_MODE |-> FALSE, OVERSTORY_DIR |-> OVERSTORY_DIR],
               [DEMO_MODE |-> TRUE, OVERSTORY_DIR |-> OVERSTORY_DIR],
               [DEMO_MODE |-> TRUE, OVERSTORY_DIR |-> Unset]}

Load == \E listing \in Listings(fs.present) : Boot(listing)

DiscoveryTimer == \E listing \in Listings(fs.present) : Scan(listing)

\* the poll loop reports a count it has read: through the open handles for the
\* active project, from a sessions.db that exists and is not empty otherwise
CountRead(projectName, count) ==
    \/ count = 0
    \/ modeManager.mode = "live" /\ modeManager.activeProject = projectName
    \/ \E path \in fs.present : /\ basename(path) = projectName
                                 /\ OverstoryDirOf(path) \in CanOpen(fs)

CountProbe == \E projectName \in ProjectNames, count \in 0..MaxAgents :
                 CountRead(projectName, count) /\ UpdateActiveAgents(projectName, count)

LayoutChanges == \E path \in ProjectPaths : ProjectAppears(path) \/ ProjectDisappears(path)

StoreChanges == \E path \in ProjectPaths :
                   StoreBreaks(OverstoryDirOf(path)) \/ StoreRecovers(OverstoryDirOf(path))

\* auto-discovery where every sessions.db that exists is not empty
InitSelect == InitLoading({AutoEnv}, {StoreDirs})

NextSelect == Load \/ DiscoveryTimer \/ CountProbe \/ LayoutChanges

SpecSelect == InitSelect /\ [][NextSelect]_vars

\* auto-discovery over a fixed layout with stores that break and recover
InitSwitch == InitLoading({AutoEnv}, {StoreDirs})

NextSwitch == Load \/ DiscoveryTimer \/ CountProbe \/ StoreChanges

SpecSwitch == InitSwitch /\ [][NextSwitch]_vars

\* OVERSTORY_DIR or DEMO_MODE set: the discovery timer is never started
InitFrozen == InitLoading(FrozenEnvs, {StoreDirs, StoreDirs \ {OVERSTORY_DIR}})

NextFrozen == Load \/ CountProbe \/ LayoutChanges

SpecFrozen == InitFrozen /\ [][NextFrozen]_vars

\* ---- the simulator on its clock ---------------------------------------------
\* DEMO_MODE set: the module has loaded with a simulator created at time 0
InitSim ==
    /\ InitPipeline
    /\ probe = NoProbe
    /\ fs = [present |-> {}, openable |-> {}, files |-> Stores,
             env |-> [DEMO_MODE |-> TRUE, OVERSTORY_DIR |-> Unset]]
    /\ modeManager = Loaded(fs.env, CanOpen(fs), <<>>).mm
    /\ discovery = Loaded(fs.env, CanOpen(fs), <<>>).d
    /\ simulator = NewDemoSimulator(now)

\* the interval timer fires on time, or up to MaxTimerDelay intervals late
TimerOnTime == DemoTick(POLL_INTERVAL_MS)

TimerLate == \E k \in 2..MaxTimerDelay : DemoTick(k * POLL_INTERVAL_MS)

NextSim == TimerOnTime \/ TimerLate

SpecSim == InitSim /\ [][NextSim]_vars

\* ---- the cost sample buffer ---------------------------------------------------
\* zero, one or two clients; the timer on time or stalled; one metrics record
Connects == \E c \in Conns : OpenOk(c)

Disconnects == \E c \in Conns : Close(c)

CostWriter == WriterMetrics("a1", CostUnit)

NextCost == Connects \/ Disconnects \/ TickOk \/ TickStalled \/ CostWriter

SpecCost == Init /\ [][NextCost]_vars

\* ---- computeMetrics on its own -----------------------------------------------
\* sequences over S of length at most n
SeqUpTo(S, n) == UNION {[1..k -> S] : k \in 0..n}

\* metrics records as mapMetricsSession returns them
MetricsRecords ==
    [agentName : Agents, estimatedCostUsd : {NullNumber, CostUnit},
     modelUsed : {NullModel, OpusModel, OtherModel}]

\* session lists, by the one field computeMetrics reads
SessionLists ==
    {<<>>, <<[state |-> "working"]>>, <<[state |-> "booting"], [state |-> "completed"]>>,
     <<[state |-> "stalled"], [state |-> "working"], [state |-> "booting"]>>}

InitLedger ==
    /\ InitServer
    /\ probe \in [fn : {"computeMetrics"},
                  args : SessionLists \X SeqUpTo(MetricsRecords, MaxRecords),
                  result : {<<>>}]

\* computeMetrics(sessions, 0, metricsSessions)
ApplyComputeMetrics ==
    /\ probe.fn = "computeMetrics"
    /\ probe.result = <<>>
    /\ probe' = [probe EXCEPT !.result = <<computeMetrics(probe.args[1], 0, probe.args[2],
                                                          [num |-> 0, den |-> 1])>>]
    /\ UNCHANGED <<lastId, clientStates, costSamples, smoothedCostPerMinute, now,
                   modeManager, discovery, fs, simulator, wsState, wire, faults, hist, liveDb, swarmSocket>>
    /\ UnchangedStores

NextLedger == ApplyComputeMetrics

SpecLedger == InitLedger /\ [][NextLedger]_vars

\* ---- mapMergeEntry on its own ------------------------------------------------
\* values of the column files_modified: lists of file names, other JSON, and
\* text that is not JSON
FilesModifiedTexts ==
    {<<"[", "\"", "s", "e", "r", "v", "e", "r", "/", "i", "n", "d", "e", "x", ".", "t", "s", "\"", ",", "\"", "s", "h", "a", "r", "e", "d", "/", "t", "y", "p", "e", "s", ".", "t", "s", "\"", "]">>,
     <<"[", "\"", "a", ".", "t", "s", "\"", "]">>,
     <<"[", "]">>,
     <<"n", "o", "t", "-", "v", "a", "l", "i", "d", "-", "j", "s", "o", "n">>,
     <<"n", "u", "l", "l">>,
     <<"5">>,
     <<"{", "}">>,
     <<"[", "1", "]">>,
     <<"[", "\"", "a", ".", "t", "s", "\"">>,
     <<"[", "\"", "a", ".", "t", "s", "\"", ",", "]">>,
     <<>>}

MergeQueueRows ==
    [branch_name : Branches, agent_name : Agents,
     status : {"pending", "merging", "merged", "conflict", "failed"},
     files_modified : FilesModifiedTexts, enqueued_at : {ToISOString(1)}]

InitMerge ==
    /\ InitServer
    /\ probe \in [fn : {"mapMergeEntry"}, args : {<<row>> : row \in MergeQueueRows},
                  result : {<<>>}]

\* mapMergeEntry(row)
ApplyMapMergeEntry ==
    /\ probe.fn = "mapMergeEntry"
    /\ probe.result = <<>>
    /\ probe' = [probe EXCEPT !.result = <<mapMergeEntry(probe.args[1])>>]
    /\ UNCHANGED <<lastId, clientStates, costSamples, smoothedCostPerMinute, now,
                   modeManager, discovery, fs, simulator, wsState, wire, faults, hist, liveDb, swarmSocket>>
    /\ UnchangedStores

NextMerge == ApplyMapMergeEntry

SpecMerge == InitMerge /\ [][NextMerge]_vars

\* ---- the live bundle on its own ---------------------------------------------
\* the module body is about to open the bundle of OVERSTORY_DIR; sessions.db is
\* in place, each optional store is or is not, and every store has a row
InitBundle ==
    /\ sessionsTable = <<NewSessionRow("a1")>>
    /\ mailTable = <<[id |-> 1, created_at |-> ToISOString(1)]>>
    /\ mergeTable = <<[branch_name |-> <<"b1">>, agent_name |-> "a1", status |-> "pending",
                       files_modified |-> NoFilesText, enqueued_at |-> ToISOString(1)]>>
    /\ eventsTable = <<[id |-> 1, agent_name |-> "a1", tool_name |-> "Bash",
                        event_type |-> "tool_start", created_at |-> ToISOString(1)]>>
    /\ metricsTable = <<[agent_name |-> "a1", estimated_cost_usd |-> CostUnit,
                         model_used |-> SonnetModel,
                         started_at |-> ToISOString(1)]>>
    /\ lastId = 0
    /\ clientStates = <<>>
    /\ costSamples = <<>>
    /\ smoothedCostPerMinute = [num |-> 0, den |-> 1]
    /\ now = 0
    /\ wsState = [c \in Conns |-> "connecting"]
    /\ wire = [c \in Conns |-> <<>>]
    /\ faults = 0
    /\ hist = [c \in Conns |-> NoHist]
    /\ liveDb = NoLiveDb
    /\ swarmSocket = NoSwarmSocket
    /\ probe = NoProbe
    /\ modeManager = Loading
    /\ discovery = NewDiscovery
    /\ simulator = NoSimulator
    /\ fs \in [present : {{}}, openable : {{OVERSTORY_DIR}},
                files : {{"sessions"} \cup S : S \in SUBSET OptionalStores},
                env : {[DEMO_MODE |-> FALSE, OVERSTORY_DIR |-> OVERSTORY_DIR]}]

HelperCall == \E helper \in DOMAIN Helpers, fails \in BOOLEAN : Query(helper, ToISOString(0), fails)

StoreArrives == \E store \in OptionalStores : StoreFileAppears(store)

NextBundle == OpenLive \/ HelperCall \/ StoreArrives

SpecBundle == InitBundle /\ [][NextBundle]_vars

\* ---- mode switches with a client connected ------------------------------------
\* auto-discovery with the project whose stores the tables are, alone or next
\* to the second project; one client; the writer ends the one session, starts
\* a second and enqueues a branch
InitMode ==
    /\ InitPipeline
    /\ probe = NoProbe
    /\ modeManager = Loading
    /\ discovery = NewDiscovery
    /\ simulator = NoSimulator
    /\ fs \in [present : {{TablesPath}, {TablesPath, OtherPath}}, openable : {StoreDirs},
                files : {Stores}, env : {AutoEnv}]

PollTimer == \E reads \in ProbeReads : now < MaxModeTicks * POLL_INTERVAL_MS /\ PollLoop(reads)

ClientOpens == OpenVia("c1")

ModeWriter == WriterSetState("a1") \/ WriterSpawn("a2") \/ WriterEnqueue(<<"b1">>)

NextMode == Load \/ ClientOpens \/ PollTimer \/ ModeWriter

SpecMode == InitMode /\ [][NextMode]_vars

\* ---- the client's reconnecting socket ------------------------------------------
NextClient ==
    \/ CreateWebSocket
    \/ \E i \in 1..Len(swarmSocket.sockets) : SocketOpens(i) \/ SocketErrors(i) \/ SocketCloses(i)
    \/ \E k \in 1..Len(swarmSocket.timers) : TimerFires(k)
    \/ WrapperCloses

SpecClient == Init /\ [][NextClient]_vars

\* ---- the message window of a snapshot -------------------------------------------
\* mail.db with n messages whose timestamps rise with the rowid, fall with it,
\* or come in pairs
MailTableOf(n, order) ==
    [i \in 1..n |-> [id |-> i,
                     created_at |-> ToISOString(CASE order = "rising" -> i
                                                  [] order = "falling" -> n + 1 - i
                                                  [] OTHER -> (i + 1) \div 2)]]

WindowMailTables ==
    {MailTableOf(n, order) : n \in {0, 1, MaxWindowMail - 2, MaxWindowMail - 1, MaxWindowMail},
                             order \in {"rising", "falling", "paired"}}

\* OVERSTORY_DIR set and a mail.db of any of these sizes, or DEMO_MODE set
InitWindow ==
    /\ sessionsTable = <<NewSessionRow("a1")>>
    /\ mergeTable = <<>>
    /\ eventsTable = <<>>
    /\ metricsTable = <<>>
    /\ lastId = 0
    /\ clientStates = <<>>
    /\ costSamples = <<>>
    /\ smoothedCostPerMinute = [num |-> 0, den |-> 1]
    /\ now = 0
    /\ wsState = [c \in Conns |-> "connecting"]
    /\ wire = [c \in Conns |-> <<>>]
    /\ faults = 0
    /\ hist = [c \in Conns |-> NoHist]
    /\ liveDb = LiveDatabases(Stores)
    /\ swarmSocket = NoSwarmSocket
    /\ probe = NoProbe
    /\ \/ /\ mailTable \in WindowMailTables
          /\ fs = [present |-> {}, openable |-> {OVERSTORY_DIR}, files |-> Stores,
                   env |-> [DEMO_MODE |-> FALSE, OVERSTORY_DIR |-> OVERSTORY_DIR]]
          /\ simulator = NoSimulator
       \/ /\ mailTable = <<>>
          /\ fs = [present |-> {}, openable |-> {}, files |-> Stores,
                   env |-> [DEMO_MODE |-> TRUE, OVERSTORY_DIR |-> Unset]]
          /\ simulator = NewDemoSimulator(now)
    /\ modeManager = Loaded(fs.env, CanOpen(fs), <<>>).mm
    /\ discovery = Loaded(fs.env, CanOpen(fs), <<>>).d

\* the timer runs the simulator until the client connects
WindowTimer ==
    /\ modeManager.simulator
    /\ wsState["c1"] = "connecting"
    /\ now < MaxWindowTicks * POLL_INTERVAL_MS
    /\ PollLoop(<<>>)

\* the tick that ends the first cycle comes late, while scripted events are
\* still to fire
WindowTimerLate ==
    /\ wsState["c1"] = "connecting"
    /\ simulator.nextEventIndex < Len(TimelineOf(simulator.cycleCount))
    /\ \E k \in {2, MaxTimerDelay} :
          /\ now + k * POLL_INTERVAL_MS - simulator.cycleStartTime >= CYCLE_DURATION_MS
          /\ DemoTick(k * POLL_INTERVAL_MS)

WindowOpens == OpenVia("c1")

WindowCloses == Close("c1")

NextWindow == WindowTimer \/ WindowTimerLate \/ WindowOpens \/ WindowCloses

SpecWindow == InitWindow /\ [][NextWindow]_vars

\* ---- stores that hold a name twice --------------------------------------------
\* a second sessions row of agent a, in another state
SecondSessionRow(a) == [NewSessionRow(a) EXCEPT !.state = "booting"]

\* two entries of branch b that are both in the queue, one pending, one merging
TwoEntriesOf(b) ==
    <<[branch_name |-> b, agent_name |-> "a1", status |-> "pending",
       files_modified |-> NoFilesText, enqueued_at |-> ToISOString(1)],
      [branch_name |-> b, agent_name |-> "a1", status |-> "merging",
       files_modified |-> NoFilesText, enqueued_at |-> ToISOString(2)]>>

\* live on OVERSTORY_DIR; the sessions store may hold two rows of one agent
\* name and the merge store two entries of one branch name
InitQuiet ==
    /\ sessionsTable \in {<<NewSessionRow("a1")>>,
                          <<NewSessionRow("a1"), SecondSessionRow("a1")>>}
    /\ mailTable \in {<<>>, <<[id |-> 1, created_at |-> ToISOString(1)]>>}
    /\ mergeTable \in {<<>>, TwoEntriesOf(<<"b1">>)}
    /\ eventsTable = <<>>
    /\ metricsTable = <<>>
    /\ lastId = 0
    /\ clientStates = <<>>
    /\ costSamples = <<>>
    /\ smoothedCostPerMinute = [num |-> 0, den |-> 1]
    /\ now = 0
    /\ wsState = [c \in Conns |-> "connecting"]
    /\ wire = [c \in Conns |-> <<>>]
    /\ faults = 0
    /\ hist = [c \in Conns |-> NoHist]
    /\ liveDb = LiveDatabases(Stores)
    /\ swarmSocket = NoSwarmSocket
    /\ probe = NoProbe
    /\ fs = [present |-> {}, openable |-> {OVERSTORY_DIR}, files |-> Stores,
             env |-> [DEMO_MODE |-> FALSE, OVERSTORY_DIR |-> OVERSTORY_DIR]]
    /\ modeManager = Loaded(fs.env, CanOpen(fs), <<>>).mm
    /\ discovery = Loaded(fs.env, CanOpen(fs), <<>>).d
    /\ simulator = NoSimulator

NextQuiet ==
    \/ WriterTouch("a1")
    \/ WriterMail(2)
    \/ WriterEnqueue(<<"b1">>)
    \/ WriterMergeStatus(<<"b1">>)
    \/ OpenOk("c1")
    \/ Close("c1")
    \/ TickOk

SpecQuiet == InitQuiet /\ [][NextQuiet]_vars

\* ---- a client watching the merge queue -----------------------------------------
\* live on OVERSTORY_DIR with an empty merge store, or DEMO_MODE with the
\* simulator created at time 0
InitDepart ==
    /\ sessionsTable = <<NewSessionRow("a1")>>
    /\ mailTable = <<>>
    /\ mergeTable = <<>>
    /\ eventsTable = <<>>
    /\ metricsTable = <<>>
    /\ lastId = 0
    /\ clientStates = <<>>
    /\ costSamples = <<>>
    /\ smoothedCostPerMinute = [num |-> 0, den |-> 1]
    /\ now = 0
    /\ wsState = [c \in Conns |-> "connecting"]
    /\ wire = [c \in Conns |-> <<>>]
    /\ faults = 0
    /\ hist = [c \in Conns |-> NoHist]
    /\ liveDb = LiveDatabases(Stores)
    /\ swarmSocket = NoSwarmSocket
    /\ probe = NoProbe
    /\ \/ /\ fs = [present |-> {}, openable |-> {OVERSTORY_DIR}, files |-> Stores,
                   env |-> [DEMO_MODE |-> FALSE, OVERSTORY_DIR |-> OVERSTORY_DIR]]
          /\ simulator = NoSimulator
       \/ /\ fs = [present |-> {}, openable |-> {}, files |-> Stores,
                   env |-> [DEMO_MODE |-> TRUE, OVERSTORY_DIR |-> Unset]]
          /\ simulator = NewDemoSimulator(now)
    /\ modeManager = Loaded(fs.env, CanOpen(fs), <<>>).mm
    /\ discovery = Loaded(fs.env, CanOpen(fs), <<>>).d

DepartTimer ==
    /\ now < (IF modeManager.simulator THEN MaxDepartTicks ELSE MaxModeTicks) * POLL_INTERVAL_MS
    /\ PollLoop(<<>>)

\* in demo mode the client connects while the simulator's queue holds an entry
DepartOpens ==
    /\ modeManager.simulator => simulator.mergeQueue # <<>>
    /\ OpenVia("c1")

\* the sessions and merge stores are written while they are the source
DepartWriter ==
    /\ ~modeManager.simulator
    /\ \/ WriterEnqueue(<<"b1">>)
       \/ WriterMergeStatus(<<"b1">>)
       \/ WriterSetState("a1")
       \/ WriterTouch("a1")
       \/ WriterSpawn("a2")

NextDepart == DepartTimer \/ DepartOpens \/ DepartWriter

SpecDepart == InitDepart /\ [][NextDepart]_vars

\* ---- properties: vocabulary -------------------------------------------------
\* the connections that have been open, without any failure, through a poll
Synced(c) == wsState[c] = "open" /\ hist[c].polls > 0 /\ hist[c].clean

HasRow(src, a) == \E i \in 1..Len(src.sessions) : src.sessions[i].agent_name = a

RowOf(src, a) == src.sessions[CHOOSE i \in 1..Len(src.sessions) : src.sessions[i].agent_name = a]

\* the mutable columns the change-fingerprint is specified over
Tracked(row) == <<row.state, row.last_activity, row.escalation_level>>

\* agent a appeared, or its tracked columns changed, between two polls
AgentChanged(p, q, a) ==
    /\ HasRow(q, a)
    /\ ~HasRow(p, a) \/ Tracked(RowOf(p, a)) # Tracked(RowOf(q, a))

\* the updates a connection has received, out of their envelopes
UpdatesOnWire(c) ==
    LET env == SelectSeq(wire[c], LAMBDA m : m.type = "update")
    IN [i \in 1..Len(env) |-> env[i].data]

CountOf(msgs, ty, Same(_)) ==
    Cardinality({i \in 1..Len(msgs) : msgs[i].type = ty /\ Same(msgs[i].data)})

TypesOf(msgs) == [i \in 1..Len(msgs) |-> msgs[i].type]

\* ---- C1 ---------------------------------------------------------------------
\* C1: for a connection that stays open with every send succeeding, the batch of
\* a tick holds exactly one agent_update for each agent that appeared or whose
\* tracked fields (state, lastActivity, escalationLevel) changed since the
\* previous poll (the snapshot, for the first tick), and none for any other agent.
C1_ExactlyOnceAgentChange ==
    \A c \in Conns : Synced(c) =>
        \A a \in Agents :
            CountOf(hist[c].batch, "agent_update", LAMBDA d : d.name = a)
              = IF AgentChanged(hist[c].prevSrc, hist[c].curSrc, a) THEN 1 ELSE 0

\* the same statement over the columns the code's fingerprint reads
C1_OverFingerprintColumns ==
    \A c \in Conns : Synced(c) =>
        \A a \in Agents :
            CountOf(hist[c].batch, "agent_update", LAMBDA d : d.name = a)
              = IF /\ HasRow(hist[c].curSrc, a)
                   /\ \/ ~HasRow(hist[c].prevSrc, a)
                      \/ RowOf(hist[c].prevSrc, a).state # RowOf(hist[c].curSrc, a).state
                      \/ RowOf(hist[c].prevSrc, a).last_activity # RowOf(hist[c].curSrc, a).last_activity
                THEN 1 ELSE 0

\* ---- C2 ---------------------------------------------------------------------
\* C2: every message inserted after a connection's snapshot and present at its
\* latest poll has been delivered to it as exactly one message_event, and no
\* message of the snapshot has been delivered as a message_event, whatever
\* creation timestamps the writer assigned.
C2_ExactlyOnceMessage ==
    \A c \in Conns : Synced(c) =>
        \A i \in 1..Len(hist[c].curSrc.mail) :
            CountOf(UpdatesOnWire(c), "message_event", LAMBDA d : d.id = hist[c].curSrc.mail[i].id)
              = IF i > Len(hist[c].openSrc.mail) THEN 1 ELSE 0

\* the statement restricted to messages stamped later than every earlier message
C2_WhenTimestampsIncrease ==
    \A c \in Conns : Synced(c) =>
        \A i \in 1..Len(hist[c].curSrc.mail) :
            (\A j \in 1..(i - 1) : TextLT(hist[c].curSrc.mail[j].created_at,
                                         hist[c].curSrc.mail[i].created_at))
            => CountOf(UpdatesOnWire(c), "message_event", LAMBDA d : d.id = hist[c].curSrc.mail[i].id)
                 = IF i > Len(hist[c].openSrc.mail) THEN 1 ELSE 0

\* ---- C3 ---------------------------------------------------------------------
Streamed(row) == row.event_type \in StreamedEventTypes

\* the tool_event a row of the events store is sent as
AsToolEvent(row) ==
    [agentName |-> row.agent_name, toolName |-> row.tool_name,
     eventType |-> row.event_type, createdAt |-> row.created_at]

\* C3: when two connections are open together, every streamed event appended
\* after both connected, and present at the latest poll of both, has been
\* delivered to each of them as exactly one tool_event.
C3_EachConnectionGetsEachEvent ==
    \A c \in Conns, d \in Conns :
        (c # d /\ Synced(c) /\ Synced(d)) =>
            \A i \in 1..Len(eventsTable) :
                (/\ Streamed(eventsTable[i])
                 /\ i > Len(hist[c].openSrc.events) /\ i > Len(hist[d].openSrc.events)
                 /\ i <= Len(hist[c].curSrc.events) /\ i <= Len(hist[d].curSrc.events))
                => CountOf(UpdatesOnWire(c), "tool_event", LAMBDA e : e = AsToolEvent(eventsTable[i])) = 1

\* ---- C4 ---------------------------------------------------------------------
\* C4: no event that was already in the events store when a connection connected
\* is ever sent to that connection as a tool_event.
C4_CursorStartsAtConnectTimeMax ==
    \A c \in Conns :
        \A i \in 1..Len(hist[c].openSrc.events) :
            CountOf(UpdatesOnWire(c), "tool_event", LAMBDA e : e = AsToolEvent(hist[c].openSrc.events[i])) = 0

\* ---- C5 ---------------------------------------------------------------------
\* the streamed events with id > n, as the statement stmtNewEvents selects them
NewerThan(events, n) ==
    LET rows == Take(SelectSeq(events, LAMBDA r : r.id > n /\ Streamed(r)), NEW_EVENTS_LIMIT)
    IN [i \in 1..Len(rows) |-> AsToolEvent(rows[i])]

ToolEventsOf(updates) == [i \in 1..Len(updates) |-> updates[i].data]

\* C5: queryNewEvents called with cursor N returns exactly the events with
\* id > N, and two calls with the same cursor over an unchanged store (two
\* connections polled in the same tick) return the same result.
C5_QueryReadsOnlyItsCursor ==
    \A c \in Conns :
        (HasClient(c) /\ hist[c].evQueried) =>
            /\ ToolEventsOf(hist[c].evRows) = NewerThan(hist[c].curSrc.events, hist[c].evCursor)
            /\ \A d \in Conns :
                  (HasClient(d) /\ hist[d].evQueried /\ hist[d].at = hist[c].at
                   /\ hist[d].evCursor = hist[c].evCursor)
                  => hist[d].evRows = hist[c].evRows

\* ---- C6 ---------------------------------------------------------------------
\* between two polls the only change of the source is the state column of agent a
OnlyStateChanged(p, q, a) ==
    /\ p.mail = q.mail /\ p.merge = q.merge /\ p.events = q.events /\ p.metrics = q.metrics
    /\ Len(p.sessions) = Len(q.sessions)
    /\ HasRow(p, a) /\ HasRow(q, a)
    /\ RowOf(p, a).state # RowOf(q, a).state
    /\ RowOf(q, a) = [RowOf(p, a) EXCEPT !.state = RowOf(q, a).state]
    /\ \A b \in Agents \ {a} : HasRow(p, b) => HasRow(q, b) /\ RowOf(p, b) = RowOf(q, b)

\* C6 (as claimed): when the only source change since the previous poll is one
\* agent's state, the batch is exactly one agent_update, for that agent, and
\* holds no update of any other type, in particular no metrics_update.
C6_SingleUpdateOnly ==
    \A c \in Conns : Synced(c) =>
        \A a \in Agents :
            OnlyStateChanged(hist[c].prevSrc, hist[c].curSrc, a)
            => /\ TypesOf(hist[c].batch) = <<"agent_update">>
               /\ hist[c].batch[1].data.name = a

ActiveCount(src) ==
    Cardinality({i \in 1..Len(src.sessions) : src.sessions[i].state \in {"working", "booting"}})

\* C6 (amended): when the only source change since the previous poll is one
\* agent's state, the batch holds exactly one agent_update, for that agent, no
\* message_event and no merge_update; it ends with one metrics_update when the
\* change alters the number of active agents.
C6_SingleAgentUpdate ==
    \A c \in Conns : Synced(c) =>
        \A a \in Agents :
            OnlyStateChanged(hist[c].prevSrc, hist[c].curSrc, a)
            => /\ SelectSeq(TypesOf(hist[c].batch),
                            LAMBDA ty : ty \in {"agent_update", "message_event", "merge_update"})
                    = <<"agent_update">>
               /\ hist[c].batch[1].data.name = a
               /\ ActiveCount(hist[c].prevSrc) # ActiveCount(hist[c].curSrc)
                    => Last(hist[c].batch).type = "metrics_update"

\* a poll that saw only a state change, with a second agent, a message and a
\* branch in the source, and answered with the agent_update and a metrics_update
C6_Witness ==
    \E c \in Conns :
        /\ Synced(c)
        /\ OnlyStateChanged(hist[c].prevSrc, hist[c].curSrc, "a1")
        /\ HasRow(hist[c].curSrc, "a2")
        /\ hist[c].curSrc.mail # <<>>
        /\ hist[c].curSrc.merge # <<>>
        /\ Len(hist[c].batch) = 2
        /\ hist[c].batch[2].type = "metrics_update"

\* ---- C8 ---------------------------------------------------------------------
EmissionRank(ty) ==
    CASE ty = "agent_update" -> 1
      [] ty = "message_event" -> 2
      [] ty = "merge_update" -> 3
      [] ty = "tool_event" -> 4
      [] ty = "metrics_update" -> 5
      [] OTHER -> 0

InEmissionOrder(batch) ==
    /\ \A i \in 1..Len(batch) : EmissionRank(batch[i].type) > 0
    /\ \A i \in 1..Len(batch), j \in 1..Len(batch) :
          i < j => EmissionRank(batch[i].type) <= EmissionRank(batch[j].type)
    /\ Cardinality({i \in 1..Len(batch) : batch[i].type = "metrics_update"}) <= 1

\* C8: every batch sent to a connection in a tick is ordered agent_update,
\* message_event, merge_update, tool_event, then at most one metrics_update; and
\* whatever a step adds to a connection's stream is that tick's batch, whole and
\* in order, appended after everything sent before (no interleaving of ticks).
C8_FixedEmissionOrder ==
    /\ [](\A c \in Conns : InEmissionOrder(hist[c].batch))
    /\ [][\A c \in Conns :
            (wsState[c] = "open" /\ wire'[c] # wire[c])
            => wire'[c] = wire[c] \o [i \in 1..Len(hist'[c].batch) |->
                                         [type |-> "update", data |-> hist'[c].batch[i]]]]_vars

\* a batch on the wire that holds all five types of update
C8_Witness ==
    \E c \in Conns :
        /\ Synced(c)
        /\ {hist[c].batch[i].type : i \in 1..Len(hist[c].batch)}
             = {"agent_update", "message_event", "merge_update", "tool_event", "metrics_update"}
        /\ Len(UpdatesOnWire(c)) >= Len(hist[c].batch)
        /\ SubSeq(UpdatesOnWire(c), Len(UpdatesOnWire(c)) - Len(hist[c].batch) + 1,
                  Len(UpdatesOnWire(c)))
             = hist[c].batch

\* ---- C7 ---------------------------------------------------------------------
\* the three fields the agent change-fingerprint is specified over
TrackedFields(s) == <<s.state, s.lastActivity, s.escalationLevel>>

\* C7: two sessions that agree on state, lastActivity and escalationLevel have
\* equal agent change-fingerprints, whatever else they differ in; two sessions
\* that differ in state, lastActivity or escalationLevel have unequal ones.
C7_FingerprintSensitivity ==
    (probe.fn = "agentKey" /\ probe.result # <<>>) =>
        LET s1 == mapSession(probe.args[1])
            s2 == mapSession(probe.args[2])
        IN /\ TrackedFields(s1) = TrackedFields(s2) => probe.result[1] = probe.result[2]
           /\ TrackedFields(s1) # TrackedFields(s2) => probe.result[1] # probe.result[2]

\* ---- C9 ---------------------------------------------------------------------
\* C9: when the poll of a connection raised (a query of computeUpdates, or a
\* ws.send of its batch), the connection's tracking record (message cursor, event
\* cursor, agent and merge maps, metrics fingerprint) is the one it had before
\* that poll.
C9_CursorsHoldWhenTickFails ==
    \A c \in Conns :
        (HasClient(c) /\ hist[c].polls > 0 /\ hist[c].threw)
        => ClientState(c) = hist[c].before[1]

\* ---- C10 --------------------------------------------------------------------
\* the tracking record a snapshot, as sent, determines
RecordOfSnapshot(snap, record) ==
    /\ DOMAIN record.agentStateMap = {snap.agents[i].name : i \in 1..Len(snap.agents)}
    /\ \A i \in 1..Len(snap.agents) :
          record.agentStateMap[snap.agents[i].name]
            = <<snap.agents[i].state, snap.agents[i].lastActivity,
                IF snap.agents[i].parentAgent = NULL THEN "" ELSE snap.agents[i].parentAgent>>
    /\ record.lastMessageTimestamp
          = IF snap.messages = <<>> THEN ToISOString(0)
            ELSE ToISOString(snap.messages[Len(snap.messages)].createdAt)
    /\ DOMAIN record.mergeStatusMap = {snap.mergeQueue[i].branchName : i \in 1..Len(snap.mergeQueue)}
    /\ \A i \in 1..Len(snap.mergeQueue) :
          record.mergeStatusMap[snap.mergeQueue[i].branchName] = snap.mergeQueue[i].status
    /\ record.metricsKey = metricsKey(snap.metrics)
    /\ record.lastTotalMessages = snap.metrics.totalMessages

\* C10: the first message a connection receives is the snapshot and the second
\* the dashboard_state; an open connection has received both; every update comes
\* after both; and until the first poll the connection's tracking record is the
\* one determined by the snapshot it was sent, which shows the stores as they
\* were when the record was registered.
C10_OpenProtocol ==
    \A c \in Conns :
        /\ Len(wire[c]) >= 1 => wire[c][1].type = "snapshot"
        /\ Len(wire[c]) >= 2 => wire[c][2].type = "dashboard_state"
        /\ wsState[c] = "open" => Len(wire[c]) >= 2
        /\ \A i \in 1..Len(wire[c]) : wire[c][i].type = "update" => i > 2
        /\ (HasClient(c) /\ hist[c].polls = 0 /\ Len(wire[c]) >= 1)
           => /\ RecordOfSnapshot(wire[c][1].data, ClientState(c))
              /\ wire[c][1].data.metrics.totalMessages = Len(hist[c].openSrc.mail)
              /\ Len(wire[c][1].data.agents) = Len(hist[c].openSrc.sessions)

\* one connection that has received its two opening messages and then an update,
\* another that has just been opened on a snapshot holding a message
C10_Witness ==
    \E c \in Conns, d \in Conns :
        /\ c # d
        /\ wsState[c] = "open" /\ Len(wire[c]) >= 3
        /\ wsState[d] = "open" /\ hist[d].polls = 0
        /\ wire[d][1].data.messages # <<>>
        /\ ClientState(d).lastMessageTimestamp # ToISOString(0)

\* ---- C11 --------------------------------------------------------------------
\* C11: whatever raised for one connection, in this tick or an earlier one, every
\* registered connection that has been polled was polled in the latest tick, and
\* each open one whose own poll did not raise was sent its whole batch in it.
C11_FailureIsolation ==
    \A d \in Conns :
        (HasClient(d) /\ hist[d].polls > 0)
        => /\ hist[d].at = now
           /\ (wsState[d] = "open" /\ ~hist[d].threw)
              => /\ hist[d].sent = Len(hist[d].batch)
                 /\ Len(UpdatesOnWire(d)) >= Len(hist[d].batch)
                 /\ SubSeq(UpdatesOnWire(d), Len(UpdatesOnWire(d)) - Len(hist[d].batch) + 1,
                           Len(UpdatesOnWire(d))) = hist[d].batch

\* the poll of the first connection raised, and the second was sent a message in
\* the same tick
C11_Witness ==
    /\ Len(clientStates) = 2
    /\ hist[clientStates[1].ws].threw
    /\ wsState[clientStates[2].ws] = "open"
    /\ hist[clientStates[2].ws].at = hist[clientStates[1].ws].at
    /\ hist[clientStates[2].ws].batch # <<>>
    /\ hist[clientStates[2].ws].sent = Len(hist[clientStates[2].ws].batch)

\* ---- C12 --------------------------------------------------------------------
\* the open handler of c got past buildSnapshot
SnapshotBuilt(c) == hist[c].openSrc # NoSrc

\* the close handler of c has not run (the socket is open, or closing after a
\* failed send of its open handler)
NotYetClosed(c) == wsState[c] \in {"open", "closing"}

\* C12: between callbacks the connections with a tracking record are exactly the
\* connections not yet closed whose snapshot was built, each with one record; a
\* record appears only in the open handler and disappears only in the close
\* handler; nothing is computed for or sent to a connection once closed.
C12_RecordLifecycle ==
    /\ [](/\ \A c \in Conns : HasClient(c) <=> (NotYetClosed(c) /\ SnapshotBuilt(c))
          /\ \A i \in 1..Len(clientStates), j \in 1..Len(clientStates) :
                clientStates[i].ws = clientStates[j].ws => i = j)
    /\ [][\A c \in Conns :
            /\ (~HasClient(c) /\ HasClient(c)') => (wsState[c] = "connecting" /\ NotYetClosed(c)')
            /\ (HasClient(c) /\ ~HasClient(c)') => (NotYetClosed(c) /\ wsState'[c] = "closed")
            /\ wsState[c] = "closed" => (wire'[c] = wire[c] /\ hist'[c] = hist[c])]_vars

\* one connection closed after it had been polled, while the other, opened later,
\* has been polled since
C12_Witness ==
    \E c \in Conns, d \in Conns :
        /\ wsState[c] = "closed" /\ hist[c].polls > 0 /\ ~HasClient(c)
        /\ HasClient(d) /\ hist[d].polls > 0 /\ hist[d].at > hist[c].at

\* ---- discovery and mode selection: vocabulary --------------------------------
IsLoaded == modeManager.mode # "loading"

\* indices of the discovered instances that have a positive live-agent count
Positive(projects) == {i \in 1..Len(projects) : projects[i].activeAgents > 0}

\* the greatest live-agent count among the discovered instances
MaxCount(projects) ==
    CHOOSE n \in 0..MaxAgents :
        /\ \A i \in 1..Len(projects) : projects[i].activeAgents <= n
        /\ n = 0 \/ \E i \in 1..Len(projects) : projects[i].activeAgents = n

\* manager mm is in live mode and its queries read the stores of instance p
LiveAgainstIn(mm, p) ==
    /\ mm.mode = "live"
    /\ mm.live = p.overstoryDir
    /\ mm.queries = p.overstoryDir
    /\ mm.activeProject = p.name

LiveAgainst(p) == LiveAgainstIn(modeManager, p)

SyntheticIn(mm) ==
    /\ mm.mode = "demo"
    /\ mm.simulator
    /\ mm.queries = Simulator

InSyntheticMode == SyntheticIn(modeManager)

\* the bundle the manager holds is open
LiveHeld == modeManager.live # NoBundle /\ modeManager.live \in modeManager.handles

\* no earlier connection failure has left the manager without its provider
ProviderIntact == IF modeManager.mode = "live" THEN LiveHeld ELSE InSyntheticMode

\* a discovery update was processed by the handler
Notified == IsLoaded /\ discovery' # discovery

\* the update selects an instance to connect to, and its store does not open
SwitchFails ==
    /\ Notified
    /\ BestProject(discovery'.projects) # 0
    /\ \/ modeManager.mode # "live"
       \/ modeManager.activeProject # discovery'.projects[BestProject(discovery'.projects)].name
    /\ discovery'.projects[BestProject(discovery'.projects)].overstoryDir \notin CanOpen(fs)


\* ---- C13 ---------------------------------------------------------------------
\* C13: with auto-switching on, a discovery update whose connection attempt
\* does not fail (and that no failed attempt precedes) leaves the manager live
\* against a discovered instance whose live-agent count is positive and the
\* greatest of all instances; when no instance has a positive count it leaves
\* the manager in synthetic mode.
C13_ModeFollowsDiscovery ==
    [][(Notified /\ ProviderIntact /\ ~SwitchFails) =>
        IF Positive(discovery'.projects) # {}
        THEN \E i \in Positive(discovery'.projects) :
                /\ LiveAgainstIn(modeManager', discovery'.projects[i])
                /\ discovery'.projects[i].activeAgents = MaxCount(discovery'.projects)
        ELSE SyntheticIn(modeManager')]_vars

\* the scenario of C13: one instance reported with the greatest count, then all
\* instances reported with zero
C13_ScenarioLive ==
    /\ IsLoaded
    /\ Len(discovery.projects) = 1
    /\ discovery.projects[1].activeAgents = MaxAgents
    /\ LiveAgainst(discovery.projects[1])

C13_ScenarioBack ==
    /\ IsLoaded
    /\ probe.fn = "updateActiveAgents" /\ probe.args[2] = 0 /\ probe.result # <<>>
    /\ Len(discovery.projects) = 1
    /\ InSyntheticMode

\* ---- C14 ---------------------------------------------------------------------
\* the provider the queries forwarded to is still the one in use: same mode,
\* same active instance, same query target, and that target is held and open
ProviderKept ==
    /\ modeManager'.mode = modeManager.mode
    /\ modeManager'.activeProject = modeManager.activeProject
    /\ modeManager'.queries = modeManager.queries
    /\ IF modeManager.queries = Simulator
       THEN modeManager'.simulator
       ELSE /\ modeManager'.live = modeManager.queries
            /\ modeManager.queries \in modeManager'.handles

\* C14: when connecting to the newly selected instance fails, the manager
\* remains on the provider it had before, synthetic or live: mode, active
\* instance and query target are unchanged and the provider is still open.
C14_FailedSwitchKeepsProvider == [][SwitchFails => ProviderKept]_vars

\* the same, for a synthetic previous provider only
C14_FromSynthetic == [][(SwitchFails /\ modeManager.mode = "demo") => ProviderKept]_vars

\* ---- C15 ---------------------------------------------------------------------
\* C15: the manager holds exactly one provider, an open live bundle or a
\* simulator; mode is live exactly when it is the bundle; the queries forward
\* to the held provider; never more than one bundle is open at a time.
C15_SingleActiveProvider ==
    IsLoaded =>
        /\ LiveHeld # modeManager.simulator
        /\ modeManager.mode = "live" <=> LiveHeld
        /\ modeManager.queries = IF LiveHeld THEN modeManager.live ELSE Simulator
        /\ Cardinality(modeManager.handles) <= 1
        /\ modeManager.peak <= 1

\* ---- C16 ---------------------------------------------------------------------
\* what the manager holds besides the stored instance list
HeldProvider(mm) ==
    [mode |-> mm.mode, activeProject |-> mm.activeProject, live |-> mm.live,
     simulator |-> mm.simulator, queries |-> mm.queries, handles |-> mm.handles,
     forceDemoMode |-> mm.forceDemoMode, overrideDir |-> mm.overrideDir]

\* C16: started with OVERSTORY_DIR or with demo forced, no discovery or
\* live-count update changes the mode, the active instance name or the held
\* provider after construction; only the stored instance list changes.
C16_FrozenAutoSwitching ==
    [][(IsLoaded /\ (modeManager.forceDemoMode \/ modeManager.overrideDir # Unset))
         => HeldProvider(modeManager') = HeldProvider(modeManager)]_vars

\* live on the fixed location while the stored list reports an instance with
\* the greatest live-agent count
C16_Witness ==
    /\ modeManager.overrideDir = OVERSTORY_DIR
    /\ modeManager.mode = "live"
    /\ modeManager.activeProject = "override"
    /\ \E i \in 1..Len(modeManager.projects) : modeManager.projects[i].activeAgents = MaxAgents
    /\ modeManager.projects = discovery.projects

\* ---- C17 ---------------------------------------------------------------------
\* OVERSTORY_DIR is set, demo is not forced, and the sessions store at that
\* location is absent or does not open
FixedLocationUnusable ==
    /\ fs.env.OVERSTORY_DIR # Unset
    /\ ~fs.env.DEMO_MODE
    /\ fs.env.OVERSTORY_DIR \notin fs.openable

\* C17: with an unusable fixed location the module never finishes loading into
\* a serving state: the manager is never constructed in live or synthetic mode.
C17_FatalFixedLocationStartup ==
    FixedLocationUnusable => modeManager.mode \notin {"demo", "live"}

\* ---- C18 ---------------------------------------------------------------------
\* the step is one run of DiscoveryManager.scan
ScanStep == probe'.fn = "scan" /\ fs' = fs

PathsOf(projects) == {projects[i].path : i \in 1..Len(projects)}

\* C18: a scan that finds the same set of paths as the previous scan, in any
\* listing order, calls no handler and leaves the stored list, its counts and
\* the mode manager as they were; so does a scan that again finds nothing.
C18_UnchangedLayoutIsSilent ==
    [][(ScanStep /\ Range(probe'.args[1]) = PathsOf(discovery.projects))
         => /\ probe'.result = <<>>
            /\ discovery' = discovery
            /\ modeManager' = modeManager]_vars

\* a silent scan whose listing order differs from the stored order, over a
\* list that holds a positive count
C18_Witness ==
    /\ probe.fn = "scan" /\ probe.result = <<>>
    /\ Len(probe.args[1]) = Len(discovery.projects)
    /\ Len(discovery.projects) >= 2
    /\ probe.args[1][1] # discovery.projects[1].path
    /\ \E i \in 1..Len(discovery.projects) : discovery.projects[i].activeAgents > 0

\* a silent scan that finds no instance, as the scan before it
C18_WitnessEmpty ==
    /\ probe.fn = "scan" /\ probe.result = <<>> /\ probe.args[1] = <<>>
    /\ discovery.projects = <<>>

\* ---- C19 ---------------------------------------------------------------------
\* the step is one call of DiscoveryManager.updateActiveAgents
UpdateStep == probe'.fn = "updateActiveAgents" /\ fs' = fs

\* the list equals old but for the count of entry i
OnlyCountSet(new, old, i, count) ==
    /\ Len(new) = Len(old)
    /\ new[i] = [old[i] EXCEPT !.activeAgents = count]
    /\ \A j \in 1..Len(old) : j # i => new[j] = old[j]

\* the update of a step found entry i of the stored list with another count
CountDiffers(i, count) == i # 0 /\ discovery.projects[i].activeAgents # count

C19_WitnessSilent ==
    /\ probe.fn = "updateActiveAgents" /\ probe.result = <<>>
    /\ FindByName(discovery.projects, probe.args[1]) # 0
    /\ probe.args[2] > 0

\* ---- C20 ---------------------------------------------------------------------
\* the count entry p of a new list must have, given the list before the scan
CarriedCount(p, old) ==
    IF p.path \in PathsOf(old)
    THEN old[CHOOSE j \in 1..Len(old) : old[j].path = p.path].activeAgents
    ELSE 0

\* C20: a scan that finds another set of paths stores the discovered list in
\* which every path of the previous list keeps its count and every new path
\* has count zero, and the handlers receive that list, counts carried over.
C20_CountsSurviveStructuralChange ==
    [][(ScanStep /\ Range(probe'.args[1]) # PathsOf(discovery.projects))
         => /\ PathsOf(discovery'.projects) = Range(probe'.args[1])
            /\ Len(discovery'.projects) = Len(probe'.args[1])
            /\ \A i \in 1..Len(discovery'.projects) :
                  discovery'.projects[i].activeAgents =
                      CarriedCount(discovery'.projects[i], discovery.projects)
            /\ probe'.result = <<discovery'.projects>>
            /\ modeManager'.projects = discovery'.projects]_vars

\* a scan that changed the list: one path kept its positive count, another
\* path is new at zero, and the handler received that list
C20_Witness ==
    /\ probe.fn = "scan"
    /\ probe.result = <<discovery.projects>>
    /\ \E i, j \in 1..Len(discovery.projects) :
          /\ discovery.projects[i].activeAgents = MaxAgents
          /\ discovery.projects[j].activeAgents = 0
    /\ modeManager.projects = discovery.projects

\* ---- C21 ---------------------------------------------------------------------
\* the step stored a freshly discovered list: the first scan while the module
\* loads, or a later scan that found another set of paths
ListingStep ==
    \/ modeManager.mode = "loading" /\ modeManager'.mode # "loading"
    \/ ScanStep /\ discovery'.lastKey # discovery.lastKey

\* C21: every instance a scan puts in the discovered list has, at the time of
\* the scan, a session store that exists and is not empty.
C21_SessionStoreQualifies ==
    [][ListingStep =>
        \A i \in 1..Len(discovery'.projects) :
            discovery'.projects[i].overstoryDir \in CanOpen(fs)]_vars

\* the parts of C21 about an absent store and about connecting
C21_AbsentNeverListed ==
    [][ListingStep => PathsOf(discovery'.projects) \subseteq fs.present]_vars

C21_ConnectFailsOutright ==
    [][SwitchFails => modeManager'.live = NoBundle /\ modeManager'.handles = {}]_vars

\* ---- C22 ---------------------------------------------------------------------
\* the positions 1..n in order
UpTo(n) == [i \in 1..n |-> i]

\* within a cycle the fired events are a prefix of the script, in script order,
\* each once, and the cursor counts them
FiredInOrder ==
    modeManager.simulator =>
        /\ simulator.fired = UpTo(simulator.nextEventIndex)
        /\ simulator.nextEventIndex <= Len(TimelineOf(simulator.cycleCount))

\* the cursor never decreases within a cycle
CursorMonotonic ==
    (modeManager.simulator /\ simulator'.cycleCount = simulator.cycleCount)
        => simulator'.nextEventIndex >= simulator.nextEventIndex

\* when a cycle was reset, every event of its script had fired
CycleReplayedWhole ==
    (modeManager.simulator /\ simulator.cycleCount > 0)
        => simulator.replayed = UpTo(Len(TimelineOf(simulator.cycleCount - 1)))

\* C22: for every spacing of the ticks, every scripted event of a cycle fires
\* exactly once and in script order before the cycle resets, none is skipped,
\* and the cursor never decreases within a cycle.
C22_TimelineReplay ==
    /\ [](FiredInOrder /\ CycleReplayedWhole)
    /\ [][CursorMonotonic]_vars

\* the part of C22 that does not depend on the spacing of the ticks
C22_NeverRefiredNeverReordered == [] FiredInOrder /\ [][CursorMonotonic]_vars

\* ---- C23 ---------------------------------------------------------------------
\* the task names the script of cycle n puts into agents and merge entries
TaskNames(n) ==
    {TimelineOf(n)[i].beadId :
        i \in {j \in 1..Len(TimelineOf(n)) :
                 TimelineOf(n)[j].action \in {"spawn_agent", "enqueue_merge"}}}

\* C23: no task name used by a cycle is used again by the cycle after it.
C23_FreshTaskNames ==
    (modeManager.simulator /\ simulator.cycleCount > 0)
        => TaskNames(simulator.cycleCount) \cap TaskNames(simulator.cycleCount - 1) = {}

\* what the round-robin does give: the pair of names differs from cycle to cycle
C23_PairsDiffer ==
    (modeManager.simulator /\ simulator.cycleCount > 0)
        => TaskNames(simulator.cycleCount) # TaskNames(simulator.cycleCount - 1)

\* ---- C24 ---------------------------------------------------------------------
\* this step is a call of helper on the open bundle
QueryStep(helper) == liveDb.open /\ probe'.fn = helper /\ fs' = fs

\* the statement of the call just made raised
StatementRaised == probe'.args[2]

\* the call of helper just made read its store: the bundle holds the statements
\* and the call returned what the statement returns
ReadsStore(helper) ==
    /\ liveDb'.stmts[Helpers[helper]]
    /\ probe'.result = StatementRows(helper, probe'.args[1], lastId)

\* C24: for the mail, merge-queue, metrics and events stores alike, a helper
\* called while its store is available reads the store, whether or not the
\* store was there when the bundle was opened.
C24_LazyReprobe ==
    [][\A helper \in DOMAIN Helpers :
          (/\ QueryStep(helper)
           /\ Helpers[helper] \in OptionalStores \cap fs.files
           /\ ~StatementRaised)
          => ReadsStore(helper)]_vars

\* the metrics store is probed again on access
C24_MetricsReprobed ==
    [][(/\ QueryStep("queryMetricsSessions")
        /\ "metrics" \in fs.files
        /\ ~StatementRaised)
       => ReadsStore("queryMetricsSessions")]_vars

\* a helper whose store is absent returns an empty result
C24_AbsentStoreIsEmpty ==
    [][\A helper \in DOMAIN Helpers :
          (QueryStep(helper) /\ Helpers[helper] \notin fs.files)
          => (probe'.result = EmptyResult(helper) /\ ~liveDb'.raised)]_vars

\* ---- C25 ---------------------------------------------------------------------
\* C25: when the statement of any of the seven helpers raises, the helper catches
\* it, returns an empty result and drops its statements, so that the next call
\* probes the store again.
C25_HelpersCatch ==
    [][\A helper \in DOMAIN Helpers :
          (QueryStep(helper) /\ StatementRaised)
          => (/\ ~liveDb'.raised
              /\ probe'.result = EmptyResult(helper)
              /\ ~liveDb'.stmts[Helpers[helper]])]_vars

\* queryMetricsSessions is the helper that does all of it
C25_MetricsHelperCatches ==
    [][(QueryStep("queryMetricsSessions") /\ StatementRaised)
       => (/\ ~liveDb'.raised
           /\ probe'.result = <<>>
           /\ ~liveDb'.stmts["metrics"])]_vars

\* ---- C26 ---------------------------------------------------------------------
\* C26: every handle created on a store is read-only, and so is every handle
\* the bundle holds.
C26_ReadOnlyHandles ==
    /\ \A h \in liveDb.created : h[2] = "readonly"
    /\ \A s \in Stores : liveDb.handles[s] \in {NoHandle, "readonly"}

\* the handles held on the stores other than events are read-only
C26_HeldReadOnlyButEvents ==
    \A s \in Stores \ {"events"} : liveDb.handles[s] \in {NoHandle, "readonly"}

\* ---- C27 ---------------------------------------------------------------------
\* the samples the buffer holds that were taken at time t
SamplesAt(samples, t) == {i \in 1..Len(samples) : samples[i].ts = t}

\* every sample but the first is at most COST_WINDOW_MS older than t
WithinWindow(samples, t) ==
    \A i \in 2..Len(samples) : t - samples[i].ts <= COST_WINDOW_MS

\* C27: each run of the interval callback appends exactly one sample to the
\* buffer, however many clients are connected, and after an append every
\* retained sample but the oldest is inside the window.
C27_OneSamplePerTick ==
    /\ [][now' # now => Cardinality(SamplesAt(costSamples', now')) = 1]_vars
    /\ [][costSamples' # costSamples => WithinWindow(costSamples', now')]_vars

\* what the code does: one sample per connected client and tick, one per
\* snapshot, and the window after every append
C27_OneSamplePerClient ==
    /\ [][now' # now => Cardinality(SamplesAt(costSamples', now')) = Len(clientStates)]_vars
    /\ [][costSamples' # costSamples => WithinWindow(costSamples', now')]_vars

\* the window has dropped samples
C27_Pruned == costSamples # <<>> /\ now > COST_WINDOW_MS /\ costSamples[1].ts > 0

\* ---- C28 ---------------------------------------------------------------------
\* computeMetrics has been applied to probe.args
MetricsComputed == probe.fn = "computeMetrics" /\ probe.result # <<>>

\* the positions of the records of agent a in ms
RecordsOf(ms, a) == {i \in 1..Len(ms) : ms[i].agentName = a}

\* the greatest member of a non-empty set of positions
MaxOf(S) == CHOOSE i \in S : \A j \in S : j <= i

\* the records of agent a that carry a model identifier
WithModel(ms, a) == {i \in RecordsOf(ms, a) : ms[i].modelUsed # NullModel}

\* C28: the ledger entry of an agent carries the shorthand of the model of the
\* agent's last record that has one; a later record without a model does not
\* erase it.
C28_LastNonNullModel ==
    MetricsComputed =>
        \A k \in 1..Len(probe.result[1].agentCosts) :
            LET e == probe.result[1].agentCosts[k]
            IN WithModel(probe.args[2], e.agentName) # {}
               => e.modelUsed = modelShorthand(
                      probe.args[2][MaxOf(WithModel(probe.args[2], e.agentName))].modelUsed)

\* what the ledger carries: the shorthand of the model of the agent's last
\* record, empty when that record has none
C28_LastRecordWins ==
    MetricsComputed =>
        \A k \in 1..Len(probe.result[1].agentCosts) :
            LET e == probe.result[1].agentCosts[k]
            IN e.modelUsed = modelShorthand(
                   probe.args[2][MaxOf(RecordsOf(probe.args[2], e.agentName))].modelUsed)

\* ---- C29 ---------------------------------------------------------------------
RECURSIVE SumKnownCosts(_)
\* the sum of estimatedCostUsd over the records, null counted as 0
SumKnownCosts(ms) ==
    IF ms = <<>> THEN 0
    ELSE (IF Head(ms).estimatedCostUsd = NullNumber THEN 0 ELSE Head(ms).estimatedCostUsd)
         + SumKnownCosts(Tail(ms))

C29_WitnessAllNull ==
    /\ MetricsComputed
    /\ Len(probe.args[2]) = MaxRecords
    /\ \A i \in 1..Len(probe.args[2]) : probe.args[2][i].estimatedCostUsd = NullNumber
    /\ probe.result[1].totalCost = 0

\* ---- C30 ---------------------------------------------------------------------
\* mapMergeEntry has been applied to the row probe.args[1]
EntryMapped == probe.fn = "mapMergeEntry" /\ probe.result # <<>>

\* v is a list of strings
IsStringList(v) ==
    v.type = "array" /\ \A k \in 1..Len(v.items) : v.items[k].type = "string"

\* text is the JSON encoding of a list of strings
EncodesStringList(text) == JSONparse(text).ok /\ IsStringList(JSONparse(text).val)

\* C30: for every value of files_modified, filesModified is a list of strings,
\* and it is the empty list whenever the value does not encode a list of
\* strings.
C30_FileListDecodingTotal ==
    EntryMapped =>
        /\ IsStringList(probe.result[1].filesModified)
        /\ ~EncodesStringList(probe.args[1].files_modified)
             => probe.result[1].filesModified = JsArray(<<>>)

\* text that JSON.parse rejects gives the empty list, and text that encodes a
\* list of strings gives that list
C30_UndecodableIsEmpty ==
    EntryMapped =>
        /\ ~JSONparse(probe.args[1].files_modified).ok
             => probe.result[1].filesModified = JsArray(<<>>)
        /\ EncodesStringList(probe.args[1].files_modified)
             => probe.result[1].filesModified = JSONparse(probe.args[1].files_modified).val

\* ---- C31 -----------------------------------------------------------------------
\* the names of the agents the timeline spawns
SimAgentNames ==
    {TimelineOf(0)[j].name : j \in {k \in 1..Len(TimelineOf(0)) :
                                       TimelineOf(0)[k].action = "spawn_agent"}}

\* the provider an agent or a merge entry on the page came from: the live
\* stores hold the agents of Agents and the branches of Branches, the
\* simulator the agents and branches of its timeline
FromProvider(page, mode) ==
    /\ \A i \in 1..Len(page.sceneAgents) :
          (page.sceneAgents[i].name \in Agents) <=> (mode = "live")
    /\ \A i \in 1..Len(page.sceneMerge) :
          (page.sceneMerge[i].branchName \in Branches) <=> (mode = "live")

\* the client behind c has been told of a switch between live and demo
SawModeSwitch(c) ==
    \E i, j \in 1..Len(wire[c]) :
        /\ i < j
        /\ wire[c][i].type = "dashboard_state"
        /\ wire[c][j].type = "dashboard_state"
        /\ wire[c][i].data.mode # wire[c][j].data.mode

\* C31: once a client has been told of a switch between live and demo mode,
\* nothing it draws comes from the provider of the mode that was left: every
\* agent and every merge entry in its scene is one of the provider of the
\* mode it was told last, also after updates of the new provider are merged.
C31_ModeSwitchClearsView ==
    \A c \in Conns :
        (wsState[c] = "open" /\ SawModeSwitch(c)) => FromProvider(Page(c), Page(c).mode)

\* ---- C32 -----------------------------------------------------------------------
\* the sockets that have not had their close event
LiveSockets == {i \in 1..Len(swarmSocket.sockets) : swarmSocket.sockets[i].state # "closed"}

PendingTimers == {k \in 1..Len(swarmSocket.timers) : swarmSocket.timers[k].state = "pending"}

\* the setTimeout calls made by the close listener of socket i
ReconnectsOf(i) == {k \in 1..Len(swarmSocket.timers) : swarmSocket.timers[k].by = i}

\* C32: while the wrapper is not closed, the close event of a socket (also one
\* an error led to) schedules exactly one reconnect, 3000 ms later; a close
\* event that arrives after close() schedules none; at no instant is there
\* more than one socket or pending reconnect timer; and no socket is created
\* once close() has been called.
C32_ReconnectStateMachine ==
    /\ \A i \in 1..Len(swarmSocket.sockets) :
          /\ swarmSocket.sockets[i].state = "closed"
               => Cardinality(ReconnectsOf(i)) = IF swarmSocket.sockets[i].lateClose THEN 0 ELSE 1
          /\ swarmSocket.sockets[i].state # "closed" => ReconnectsOf(i) = {}
          /\ ~swarmSocket.sockets[i].afterClose
    /\ \A k \in 1..Len(swarmSocket.timers) : swarmSocket.timers[k].delay = 3000
    /\ Cardinality(LiveSockets) + Cardinality(PendingTimers) <= 1
    /\ swarmSocket.closed => PendingTimers = {}

\* a socket failed and was reconnected, the second socket closed too, and the
\* wrapper was closed while the reconnect was pending
C32_Witness ==
    /\ swarmSocket.closed
    /\ Len(swarmSocket.sockets) = 2
    /\ \A i \in 1..2 : swarmSocket.sockets[i].state = "closed" /\ ~swarmSocket.sockets[i].lateClose
    /\ swarmSocket.timers[2].state = "cleared"

\* the wrapper was closed while a socket was open, and the socket's close
\* event arrived afterwards
C32_WitnessLateClose ==
    /\ swarmSocket.closed
    /\ \E i \in 1..Len(swarmSocket.sockets) :
          swarmSocket.sockets[i].state = "closed" /\ swarmSocket.sockets[i].lateClose

\* ---- C33 -----------------------------------------------------------------------
\* the poll loop visited connection c in this step
Polled(c) == hist'[c].polls = hist[c].polls + 1

NoneOfType(batch, type) == \A i \in 1..Len(batch) : batch[i].type # type

\* the message cursor of c is not earlier after the step, and is the same
\* when the step is a tick that found no new message
MessageCursorHolds(c) ==
    /\ ~TextLT(ClientState(c)'.lastMessageTimestamp, ClientState(c).lastMessageTimestamp)
    /\ (Polled(c) /\ NoneOfType(hist'[c].batch, "message_event"))
          => ClientState(c)'.lastMessageTimestamp = ClientState(c).lastMessageTimestamp

\* a live bundle, and with it an event cursor, exists before and after the step
CursorExists == modeManager.live # NoBundle /\ modeManager'.live # NoBundle

\* the event cursor is not smaller after the step, and is the same when the
\* step is a tick that found no new event
EventCursorHolds(c) ==
    CursorExists =>
        /\ lastId' >= lastId
        /\ (Polled(c) /\ NoneOfType(hist'[c].batch, "tool_event")) => lastId' = lastId

\* C33: for every connection and every step it stays connected through, ticks
\* after a provider switch included, the message timestamp cursor never
\* moves to an earlier value and the event id cursor never decreases, and a
\* tick that finds no new message (no new event) leaves the message cursor
\* (the event cursor) unchanged.
C33_MonotonicCursors ==
    [][\A c \in Conns :
          (HasClient(c) /\ HasClient(c)') => (MessageCursorHolds(c) /\ EventCursorHolds(c))]_vars

\* the message cursor part holds in every mode and across every switch, and
\* the event cursor part holds for as long as the same bundle is open
C33_MonotonicWithinProvider ==
    [][\A c \in Conns :
          (HasClient(c) /\ HasClient(c)')
             => /\ MessageCursorHolds(c)
                /\ modeManager'.live = modeManager.live => EventCursorHolds(c)]_vars

\* ---- C34 -----------------------------------------------------------------------
\* the messages the provider holds, as [id, createdAt in ms]
SourceMessages ==
    IF modeManager.queries = Simulator
    THEN [i \in 1..Len(simulator.messages) |->
            [id |-> simulator.messages[i].id,
             createdAt |-> DateGetTime(simulator.messages[i].createdAt)]]
    ELSE [i \in 1..Len(mailTable) |->
            [id |-> mailTable[i].id, createdAt |-> DateGetTime(mailTable[i].created_at)]]

\* connection c has just been opened: the snapshot and the dashboard state are
\* all it was sent, and the provider has not changed since
JustOpened(c) == HasClient(c) /\ Len(wire[c]) = 2 /\ wire[c][1].type = "snapshot"

\* msgs is a window of size at most n over the messages of source: as many as
\* there are up to n, each one of the source, none older than a message left
\* out, in ascending order of creation
IsRecentWindow(msgs, source, n) ==
    /\ Len(msgs) = IF Len(source) < n THEN Len(source) ELSE n
    /\ \A i \in 1..Len(msgs) : \E j \in 1..Len(source) : source[j] = msgs[i]
    /\ \A i, j \in 1..Len(msgs) : i < j => msgs[i].id # msgs[j].id
    /\ \A i \in 1..(Len(msgs) - 1) : msgs[i].createdAt <= msgs[i + 1].createdAt
    /\ \A j \in 1..Len(source) :
          (\A i \in 1..Len(msgs) : msgs[i].id # source[j].id)
             => \A i \in 1..Len(msgs) : source[j].createdAt <= msgs[i].createdAt

\* C34: the messages of a snapshot are the min(50, total) most recent messages
\* of the provider by creation timestamp, in ascending order of creation
\* timestamp, and the connection's message cursor starts at the timestamp of
\* the last of them, in live and in demo mode.
C34_SnapshotMessageWindow ==
    \A c \in Conns :
        JustOpened(c) =>
            /\ IsRecentWindow(wire[c][1].data.messages, SourceMessages, 50)
            /\ wire[c][1].data.messages # <<>>
                 => ClientState(c).lastMessageTimestamp =
                       ToISOString(Last(wire[c][1].data.messages).createdAt)

\* a snapshot taken in demo mode when the simulator held more than 50 messages
C34_Witness ==
    \E c \in Conns :
        /\ JustOpened(c)
        /\ modeManager.queries = Simulator
        /\ Len(simulator.messages) > 50
        /\ Len(wire[c][1].data.messages) = 50

\* a snapshot taken in live mode of a mail.db with more than 50 messages
\* whose timestamps fall with the rowid
C34_WitnessLive ==
    \E c \in Conns :
        /\ JustOpened(c)
        /\ modeManager.mode = "live"
        /\ Len(mailTable) > 50
        /\ DateGetTime(mailTable[1].created_at) > DateGetTime(mailTable[2].created_at)
        /\ Len(wire[c][1].data.messages) = 50

\* ---- C35 -----------------------------------------------------------------------
\* the timer runs the simulator, and this run is the first at or after the
\* end of the cycle
ResetTick ==
    /\ modeManager.simulator
    /\ now' # now
    /\ now' - simulator.cycleStartTime >= CYCLE_DURATION_MS

\* s is the last min(n, Len(all)) entries of all
IsTail(s, all, n) ==
    /\ Len(s) = IF Len(all) < n THEN Len(all) ELSE n
    /\ \A i \in 1..Len(s) : s[i] = all[Len(all) - Len(s) + i]

\* one new completed-metrics record for each agent held, after those there were
ArchivedEach(before, after) ==
    /\ Len(after.completedAgents) = Len(before.completedAgents) + Len(before.agents)
    /\ \A i \in 1..Len(before.completedAgents) : after.completedAgents[i] = before.completedAgents[i]
    /\ \A i \in 1..Len(before.agents) :
          after.completedAgents[Len(before.completedAgents) + i].agentName
             = before.agents[i].agentName

\* no two messages and no two sessions held share an id, and no id is beyond
\* its counter
IdsUnique(sim) ==
    /\ \A i, j \in 1..Len(sim.messages) : i # j => sim.messages[i].id # sim.messages[j].id
    /\ \A i \in 1..Len(sim.messages) : sim.messages[i].id <= sim.msgIdCounter
    /\ \A i, j \in 1..Len(sim.agents) : i # j => sim.agents[i].id # sim.agents[j].id
    /\ \A i \in 1..Len(sim.agents) : sim.agents[i].id <= sim.sessionIdCounter

C35_WitnessLate ==
    /\ modeManager.simulator
    /\ simulator.cycleCount = 1
    /\ simulator.nextEventIndex = 0
    /\ Len(simulator.replayed) < Len(TimelineOf(0))

\* ---- C36 -----------------------------------------------------------------------
\* the instance of this name has a positive count that no instance of the
\* list exceeds
AtMaximum(name, projects) ==
    \E i \in 1..Len(projects) :
       /\ projects[i].name = name
       /\ projects[i].activeAgents > 0
       /\ \A j \in 1..Len(projects) : projects[j].activeAgents <= projects[i].activeAgents

\* C36: when the active live instance has a live-agent count equal to the
\* maximum among the discovered instances, a discovery update never switches
\* the manager to a different instance, whatever the order of the list.
C36_ActivePreferredOnTies ==
    [][(/\ modeManager.mode = "live"
        /\ modeManager.activeProject # NULL
        /\ AtMaximum(modeManager.activeProject, modeManager'.projects))
       => /\ modeManager'.mode = "live"
          /\ modeManager'.activeProject = modeManager.activeProject]_vars

\* ---- C37 -----------------------------------------------------------------------
\* the connection's last two batches were computed by ticks, over the same
\* sessions, messages and merge queue
SameAtTwoTicks(c) ==
    /\ Synced(c)
    /\ hist[c].polls >= 2
    /\ hist[c].prevSrc.sessions = hist[c].curSrc.sessions
    /\ hist[c].prevSrc.mail = hist[c].curSrc.mail
    /\ hist[c].prevSrc.merge = hist[c].curSrc.merge

Quiet(batch) ==
    \A i \in 1..Len(batch) :
        batch[i].type \notin {"agent_update", "message_event", "merge_update"}

NamesDistinct(src) ==
    /\ \A i, j \in 1..Len(src.sessions) :
          i # j => src.sessions[i].agent_name # src.sessions[j].agent_name
    /\ \A i, j \in 1..Len(src.merge) :
          (/\ i # j
           /\ src.merge[i].status \in {"pending", "merging"}
           /\ src.merge[j].status \in {"pending", "merging"})
          => src.merge[i].branch_name # src.merge[j].branch_name

\* C37: if the source's sessions, messages and merge queue are identical at two
\* consecutive ticks, the second tick's batch for every connection holds no
\* agent_update, no message_event and no merge_update, whatever the source
\* holds, two session rows of one agent name and two merge entries of one
\* branch name included.
C37_Quiescence ==
    \A c \in Conns : SameAtTwoTicks(c) => Quiet(hist[c].batch)

\* the part that holds: quiescence over sources in which no agent name and no
\* queued branch name occurs twice
C37_QuiescenceDistinctNames ==
    \A c \in Conns :
        (SameAtTwoTicks(c) /\ NamesDistinct(hist[c].curSrc)) => Quiet(hist[c].batch)

\* a quiet second tick over a source with an agent, a message and a queued branch
C37_WitnessDistinctNames ==
    \E c \in Conns :
        /\ SameAtTwoTicks(c)
        /\ NamesDistinct(hist[c].curSrc)
        /\ hist[c].curSrc.mail # <<>>
        /\ hist[c].curSrc.merge # <<>>

\* ---- C38 -----------------------------------------------------------------------
InTheQueue == {"pending", "merging"}

\* the branch names of the entries the source holds in the active set
ActiveBranches(mm, sim, table) ==
    IF mm.simulator
    THEN {sim.mergeQueue[i].branchName :
            i \in {j \in 1..Len(sim.mergeQueue) : sim.mergeQueue[j].status \in InTheQueue}}
    ELSE {table[i].branch_name :
            i \in {j \in 1..Len(table) : table[j].status \in InTheQueue}}

\* the keys of the merge tracking map of connection c in the client records cs
TrackedBranches(cs, c) ==
    DOMAIN cs[CHOOSE i \in 1..Len(cs) : cs[i].ws = c].state.mergeStatusMap

IsConnected(cs, c) == \E i \in 1..Len(cs) : cs[i].ws = c

\* the updates of the batch a poll step sends to connection c
BatchSent(c) ==
    LET sent == SubSeq(wire'[c], Len(wire[c]) + 1, Len(wire'[c]))
        env == SelectSeq(sent, LAMBDA m : m.type = "update")
    IN [i \in 1..Len(env) |-> env[i].data]

\* C38: computeUpdates emits merge_update only for entries whose status is
\* pending or merging; when an entry leaves the active set (its status becomes
\* merged, conflict or failed, or the simulator removes it) the batch of that
\* tick holds no update for it, and its key is no longer in the connection's
\* merge tracking map after the tick.
C38_SilentDepartures ==
    [][\A c \in Conns :
         (now' # now /\ IsConnected(clientStates, c) /\ IsConnected(clientStates', c))
         => /\ \A i \in 1..Len(BatchSent(c)) :
                  BatchSent(c)[i].type = "merge_update"
                  => BatchSent(c)[i].data.status \in InTheQueue
            /\ \A b \in TrackedBranches(clientStates, c)
                          \ ActiveBranches(modeManager', simulator', mergeTable') :
                  /\ b \notin TrackedBranches(clientStates', c)
                  /\ \A i \in 1..Len(BatchSent(c)) :
                        BatchSent(c)[i].type = "merge_update"
                        => BatchSent(c)[i].data.branchName # b]_vars

\* a branch the connection was told of is gone from the source's active set and
\* from the tracking map
Departed(c, b) ==
    /\ IsConnected(clientStates, c)
    /\ hist[c].polls > 0
    /\ \/ \E i \in 1..Len(wire[c]) :
             /\ wire[c][i].type = "update"
             /\ wire[c][i].data.type = "merge_update"
             /\ wire[c][i].data.data.branchName = b
       \/ \E i \in 1..Len(wire[c][1].data.mergeQueue) :
             wire[c][1].data.mergeQueue[i].branchName = b
    /\ b \notin ActiveBranches(modeManager, simulator, mergeTable)
    /\ b \notin TrackedBranches(clientStates, c)

\* live: the entry of b1 was merged after the connection had seen it
C38_Witness ==
    /\ ~modeManager.simulator
    /\ Departed("c1", <<"b1">>)
    /\ \E i \in 1..Len(mergeTable) : mergeTable[i].status = "merged"

\* demo: the simulator removed the first branch it had enqueued
C38_WitnessDemo ==
    /\ modeManager.simulator
    /\ Departed("c1", <<"overstory/srv-builder-1/", getBead(0, 0)>>)

\* ---- C39 -----------------------------------------------------------------------
\* the instances flagged active in a dashboard state
FlaggedActive(ds) == {i \in 1..Len(ds.projects) : ds.projects[i].active}

AtMostOneActive(ds) ==
    /\ Cardinality(FlaggedActive(ds)) <= 1
    /\ ds.mode = "demo" => FlaggedActive(ds) = {}

\* the poll loop has probed the instance at position i of the list and reports
\* its count: no other instance's stored count changes, and the probed one
\* holds the count
OnlyProbedChanges(d, i, count) ==
    LET after == updateActiveAgents(d, d.projects[i].name, count).d.projects
    IN /\ \A j \in 1..Len(d.projects) :
             j # i => after[j].activeAgents = d.projects[j].activeAgents
       /\ after[i].activeAgents = count

NamesUnique(projects) ==
    \A i, j \in 1..Len(projects) : i # j => projects[i].name # projects[j].name

\* C39: in every dashboard_state built by buildDashboardState at most one
\* discovered instance is flagged active, and none in demo mode; updating the
\* count of one probed instance changes the stored count of that instance
\* only; both for every discovered list, two instances of one directory name
\* under different roots included.
C39_UniqueActiveFlag ==
    /\ AtMostOneActive(buildDashboardState(modeManager))
    /\ \A i \in 1..Len(discovery.projects), count \in 0..MaxAgents :
          OnlyProbedChanges(discovery, i, count)

\* the part that holds: the same over lists in which no name occurs twice
C39_UniqueWhenNamesDiffer ==
    /\ NamesUnique(modeManager.projects)
         => AtMostOneActive(buildDashboardState(modeManager))
    /\ NamesUnique(discovery.projects)
         => \A i \in 1..Len(discovery.projects), count \in 0..MaxAgents :
               OnlyProbedChanges(discovery, i, count)

\* ---- C40 -----------------------------------------------------------------------
\* modeManager.queryMergeQueue()
MergeQueueVia(mm, sim) ==
    IF mm.queries = Simulator THEN simQueryMergeQueue(sim)
    ELSE IF ReadsOther(mm.queries) THEN <<>>
    ELSE queryMergeQueue

\* every agent of the source is on the page with its state and lastActivity,
\* and every active merge entry with its status
Agrees(page, sessions, merge) ==
    /\ \A i \in 1..Len(sessions) :
          \E k \in 1..Len(page.agents) :
             /\ page.agents[k].name = toAgent(sessions[i]).name
             /\ page.agents[k].state = toAgent(sessions[i]).state
             /\ page.agents[k].lastActivity = toAgent(sessions[i]).lastActivity
    /\ \A i \in 1..Len(merge) :
          \E k \in 1..Len(page.mergeQueue) :
             /\ page.mergeQueue[k].branchName = merge[i].branchName
             /\ page.mergeQueue[k].status = merge[i].status

\* the connection has been polled by this step, and nothing has failed on it
PolledClean(c) ==
    /\ now' # now
    /\ IsConnected(clientStates, c)
    /\ IsConnected(clientStates', c)
    /\ wsState'[c] = "open"
    /\ hist'[c].clean

\* C40: for a connection whose sends all succeed and that saw no mode switch,
\* after every tick the client state obtained by applying the snapshot and
\* then all updates in order (agents merged by name, merge entries by branch
\* name, messages appended) agrees with the provider: every agent of the
\* source is there with the same state and lastActivity, every active merge
\* entry with the same status.
C40_ViewTracksSource ==
    [][\A c \in Conns :
         (PolledClean(c) /\ ~SawModeSwitch(c)')
         => \A page \in {Page(c)'} :
               \A sessions \in {SessionsVia(modeManager, simulator)'} :
                  \A merge \in {MergeQueueVia(modeManager, simulator)'} :
                     Agrees(page, sessions, merge)]_vars

\* the connection has received an update of type ty whose data has v in field k
GotUpdate(c, ty, k, v) ==
    \E i \in 1..Len(wire[c]) :
        /\ wire[c][i].type = "update"
        /\ wire[c][i].data.type = ty
        /\ wire[c][i].data.data[k] = v

\* live: the page has followed a1 completing, a2 appearing and b1 going to
\* merging, and agrees with the stores
C40_Witness ==
    /\ ~modeManager.simulator
    /\ wsState["c1"] = "open" /\ hist["c1"].clean /\ hist["c1"].polls >= 2
    /\ GotUpdate("c1", "agent_update", "state", "completed")
    /\ GotUpdate("c1", "agent_update", "name", "a2")
    /\ GotUpdate("c1", "merge_update", "status", "merging")
    /\ Agrees(Page("c1"), SessionsVia(modeManager, simulator),
              MergeQueueVia(modeManager, simulator))
    /\ Len(Page("c1").agents) = 2

\* demo: the page has followed the simulator through merges and state changes
C40_WitnessDemo ==
    /\ modeManager.simulator
    /\ wsState["c1"] = "open" /\ hist["c1"].clean /\ hist["c1"].polls >= 20
    /\ GotUpdate("c1", "agent_update", "state", "completed")
    /\ GotUpdate("c1", "merge_update", "status", "merging")
    /\ Agrees(Page("c1"), SessionsVia(modeManager, simulator),
              MergeQueueVia(modeManager, simulator))


====
